---- MODULE Spec2Model ----
(***************************************************************************)
(* Force-directed label placement of rohantmp/pathmap: the LabelManager    *)
(* (label catalog, vertex selection, force solver, animation scheduler)    *)
(* and the MapManager operations that drive it.                            *)
(*                                                                         *)
(* Numbers.  Coordinates are integers counting hundredths of a degree      *)
(* (UnitsPerDegree), at map zoom 6, where one pixel is about 2.2 units.    *)
(* On this lattice the epsilon tests of the code are exact: a distance is  *)
(* "> 0.00001" iff it is non-zero and two coordinates are "within          *)
(* 0.000001" iff they are equal.  Real-valued arithmetic is integer        *)
(* arithmetic with quotients truncated toward zero (Quot), so that a term  *)
(* and its negation round symmetrically.                                   *)
(***************************************************************************)
EXTENDS Integers, Sequences, FiniteSets, TLC

----------------------------------------------------------------------------
(* Arithmetic helpers: the JavaScript Math functions the code uses *)

Abs(x) == IF x < 0 THEN -x ELSE x
Max(a, b) == IF a > b THEN a ELSE b
Min(a, b) == IF a < b THEN a ELSE b
Sign(x) == IF x > 0 THEN 1 ELSE -1

\* a / b on the lattice: the real quotient truncated toward zero
Quot(a, b) ==
    IF b = 0 THEN 0
    ELSE IF a >= 0
    THEN (IF b > 0 THEN a \div b ELSE -(a \div (-b)))
    ELSE (IF b > 0 THEN -((-a) \div b) ELSE (-a) \div (-b))

RECURSIVE SqrtIter(_, _, _)
SqrtIter(n, lo, hi) ==
    IF lo >= hi THEN lo
    ELSE LET mid == (lo + hi + 1) \div 2
         IN  IF mid * mid <= n THEN SqrtIter(n, mid, hi)
             ELSE SqrtIter(n, lo, mid - 1)

\* Math.sqrt rounded down
Sqrt(n) ==
    SqrtIter(n, 0, IF n < 65536 THEN 255 ELSE IF n < 16777216 THEN 4095 ELSE 46340)

\* Math.sqrt rounded up
SqrtUp(n) == LET r == Sqrt(n) IN IF r * r = n THEN r ELSE r + 1

\* Math.sqrt(dx * dx + dy * dy)
Hypot(dx, dy) == Sqrt(dx * dx + dy * dy)

RECURSIVE SumSeq(_)
SumSeq(s) == IF s = <<>> THEN 0 ELSE Head(s) + SumSeq(Tail(s))

\* Array.prototype.findIndex, 0 when nothing matches (JavaScript's -1)
FindIndex(s, Test(_)) ==
    IF \E i \in 1..Len(s) : Test(s[i])
    THEN CHOOSE i \in 1..Len(s) : Test(s[i]) /\ \A j \in 1..(i - 1) : ~Test(s[j])
    ELSE 0

\* Array.prototype.splice(index, 1)
RemoveAt(s, i) == SubSeq(s, 1, i - 1) \o SubSeq(s, i + 1, Len(s))

----------------------------------------------------------------------------
(* Units and the pixel conversion *)

UnitsPerDegree == 100
Zoom == 6
EquatorCos == 1000

\* Math.cos(lat * Math.PI / 180) in thousandths, lat in lattice units
\* (second-order expansion: 1 - x^2/2 with x = lat / (100 * 57.296))
CosMilli(lat) == 1000 - Quot(lat * lat, 65656)

RECURSIVE Pow2(_)
Pow2(n) == IF n = 0 THEN 1 ELSE 2 * Pow2(n - 1)

\* 156543.03392 * cos / 2^zoom, in thousandths of a metre
metersPerPixel(cosMilli) == Quot(156543 * cosMilli, Pow2(Zoom))

\* (metersPerPixel * pixels) / 111320, for pixels = num / den, in lattice units
pixelsToDegreesFrac(cosMilli, num, den) ==
    Quot(metersPerPixel(cosMilli) * num, 1113200 * den)

pixelsToDegrees(cosMilli, pixels) == pixelsToDegreesFrac(cosMilli, pixels, 1)

----------------------------------------------------------------------------
(* Settings (constructor defaults) *)

initialOffset == 15
minVertexDistance == 30
springStrengthTenths == 1
dampingTenths == 6
maxLabelDistance == 80
minVertexAngle == 10
eqVertex == 20
eqLabel == 30
eqCenter == 100
eqFalloff == 3
stableThreshold == 10
stepsPerFrame == 3
forceScaleNum == 3
forceScaleDen == 20
labelHeight == 30

\* settings.iterations as set through updateSettings (the iterations slider):
\* the step budget of a run
iterations == 2

\* this.settings as the constructor leaves it (the fields that can change)
DefaultSettings == [minVertexAngle |-> minVertexAngle, iterations |-> iterations]

----------------------------------------------------------------------------
(* The world the host application supplies: viewports and polygons *)

LatLng(lat, lng) == [lat |-> lat, lng |-> lng]
Vertex(lat, lon) == [lat |-> lat, lon |-> lon]

\* map.getBounds() of the views the user can pan to
Viewports ==
    { [south |-> 0, north |-> 700, west |-> 0,   east |-> 1000],
      [south |-> 200, north |-> 700, west |-> 400, east |-> 1000] }

PolygonIds == {1, 2}

\* polygon.hull of each polygon of the application state
HullOf(id) ==
    IF id = 1
    THEN << Vertex(200, 400), Vertex(500, 300), Vertex(400, 700) >>
    ELSE << Vertex(300, 900), Vertex(600, 1200), Vertex(250, 1300) >>

\* polygon.name ('' when the polygon is unnamed)
NameOf(id) == IF id = 1 THEN "A" ELSE ""

Polygon(id) == [id |-> id, hull |-> HullOf(id), name |-> NameOf(id)]

\* positions a marker can be dragged to (e.target.getLatLng())
DragTargets == { LatLng(350, 500) }

\* the markers the user drags
DragKeys == { <<1, 0>> }

\* bounds.contains(L.latLng(lat, lng))
Contains(b, lat, lng) ==
    /\ lat >= b.south /\ lat <= b.north
    /\ lng >= b.west /\ lng <= b.east

\* bounds.getCenter().lat
CenterLat(b) == Quot(b.south + b.north, 2)

----------------------------------------------------------------------------
(* Geometry utilities *)

\* cos(d degrees) in thousandths, d in 0..90
CosTable ==
    << 1000, 1000, 999, 999, 998, 996, 995, 993, 990, 988, 985, 982, 978,
       974, 970, 966, 961, 956, 951, 946, 940, 934, 927, 921, 914, 906, 899,
       891, 883, 875, 866, 857, 848, 839, 829, 819, 809, 799, 788, 777, 766,
       755, 743, 731, 719, 707, 695, 682, 669, 656, 643, 629, 616, 602, 588,
       574, 559, 545, 530, 515, 500, 485, 469, 454, 438, 423, 407, 391, 375,
       358, 342, 326, 309, 292, 276, 259, 242, 225, 208, 191, 174, 156, 139,
       122, 105, 87, 70, 52, 35, 17, 0 >>

CosDeg(d) == IF d <= 90 THEN CosTable[d + 1] ELSE -CosTable[181 - d]

\* the largest d in lo..hi with CosDeg(d) >= c (CosDeg does not increase)
RECURSIVE AcosIter(_, _, _)
AcosIter(c, lo, hi) ==
    IF lo >= hi THEN lo
    ELSE LET mid == (lo + hi + 1) \div 2
         IN  IF CosDeg(mid) >= c THEN AcosIter(c, mid, hi)
             ELSE AcosIter(c, lo, mid - 1)

\* Math.acos(c) * (180 / Math.PI) in whole degrees, c in thousandths
AcosDeg(c) == AcosIter(c, 0, 180)

calculateVertexAngle(vertices, index) ==
    LET n    == Len(vertices)
        prev == vertices[((index - 1 + n) % n) + 1]
        curr == vertices[index + 1]
        next == vertices[((index + 1) % n) + 1]
        v1x  == prev.lon - curr.lon
        v1y  == prev.lat - curr.lat
        v2x  == next.lon - curr.lon
        v2y  == next.lat - curr.lat
        dot  == v1x * v2x + v1y * v2y
        mag1 == Hypot(v1x, v1y)
        mag2 == Hypot(v2x, v2y)
    IN  IF v1x * v1x + v1y * v1y = 0 \/ v2x * v2x + v2y * v2y = 0
        THEN 180
        ELSE AcosDeg(Max(-1000, Min(1000, Quot(dot * 1000, mag1 * mag2))))

\* number of characters of x.toFixed(6), x in lattice units
FixedLen(x) ==
    LET whole == Abs(x) \div UnitsPerDegree
        digits == IF whole >= 100 THEN 3 ELSE IF whole >= 10 THEN 2 ELSE 1
    IN  digits + 7 + (IF x < 0 THEN 1 ELSE 0)

\* text.length of `${lat.toFixed(6)}, ${lon.toFixed(6)}`
TextLen(vertex) == FixedLen(vertex.lat) + 2 + FixedLen(vertex.lon)

estimateLabelWidth(textLen) == textLen * 7 + 16

----------------------------------------------------------------------------
(* Vertex selection and label construction (setLabels / updateAllLabels) *)

\* LabelManager.settings: the settings updateSettings() can change between
\* two runs of the vertex selection
VARIABLE settings

LabelKey(polygonId, index) == <<polygonId, index>>

RECURSIVE SumLat(_)
SumLat(vs) == IF vs = <<>> THEN 0 ELSE Head(vs).lat + SumLat(Tail(vs))

RECURSIVE SumLon(_)
SumLon(vs) == IF vs = <<>> THEN 0 ELSE Head(vs).lon + SumLon(Tail(vs))

\* vertices.filter(v => bounds.contains(L.latLng(v.lat, v.lon)))
VisibleVertices(b, hull) == SelectSeq(hull, LAMBDA v : Contains(b, v.lat, v.lon))

\* the label pushed away from the centre of the visible vertices by offset
\* and shifted vertically, alternating by vertex index
OffsetPosition(vertex, dx, dy, offset, verticalOffset) ==
    IF dx * dx + dy * dy > 0
    THEN LatLng(vertex.lat + Quot(dy * offset, Hypot(dx, dy)) + verticalOffset,
                vertex.lon + Quot(dx * offset, Hypot(dx, dy)))
    ELSE LatLng(vertex.lat + verticalOffset, vertex.lon + offset)

\* initial position of a label that has no saved manual position
InitialPosition(b, hull, index) ==
    OffsetPosition(hull[index + 1],
        hull[index + 1].lon
            - Quot(SumLon(VisibleVertices(b, hull)), Len(VisibleVertices(b, hull))),
        hull[index + 1].lat
            - Quot(SumLat(VisibleVertices(b, hull)), Len(VisibleVertices(b, hull))),
        pixelsToDegrees(CosMilli(CenterLat(b)), initialOffset),
        pixelsToDegrees(CosMilli(CenterLat(b)), IF index % 2 = 1 THEN -45 ELSE 45))

\* the label object pushed for a vertex.  hasSaved is savedPos !== undefined;
\* setLabels passes no saved positions and leaves manuallyPositioned
\* undefined, which the solver reads as false.
NewLabel(b, polygonId, hull, index, saved, hasSaved) ==
    [ key |-> LabelKey(polygonId, index),
      polygonId |-> polygonId,
      vertexIndex |-> index,
      vertexLatLng |-> LatLng(hull[index + 1].lat, hull[index + 1].lon),
      labelLatLng |-> IF hasSaved THEN saved[LabelKey(polygonId, index)]
                      ELSE InitialPosition(b, hull, index),
      width |-> estimateLabelWidth(TextLen(hull[index + 1])),
      height |-> labelHeight,
      polygonVertices |-> hull,
      manuallyPositioned |-> hasSaved ]

\* this.labels.push(...) and labeledVertices.push(...)
PushLabel(ls, labeled, b, polygonId, hull, index, saved, angle) ==
    [ labels  |-> Append(ls, NewLabel(b, polygonId, hull, index, saved,
                                      LabelKey(polygonId, index) \in DOMAIN saved)),
      labeled |-> Append(labeled, [ lat |-> hull[index + 1].lat,
                                    lon |-> hull[index + 1].lon,
                                    angle |-> angle ]) ]

\* this.labels.splice(oldLabelIndex, 1) when oldLabelIndex was found
SpliceFound(ls, oldLabelIndex) ==
    IF oldLabelIndex # 0 THEN RemoveAt(ls, oldLabelIndex) ELSE ls

\* the labels without the label of the evicted close vertex; scoped is TRUE
\* in setLabels, whose search also matches polygonId
EvictLabel(ls, scoped, polygonId, closeLabeled) ==
    SpliceFound(ls, FindIndex(ls, LAMBDA l :
        /\ scoped => l.polygonId = polygonId
        /\ l.vertexLatLng.lat = closeLabeled.lat
        /\ l.vertexLatLng.lng = closeLabeled.lon))

\* tooClose handling: closeIdx is the index in labeledVertices of the first
\* labeled vertex closer than minVertexDistance (0 when there is none)
ResolveClose(acc, b, polygonId, hull, index, saved, scoped, angle, closeIdx) ==
    IF closeIdx = 0
    THEN PushLabel(acc.labels, acc.labeled, b, polygonId, hull, index, saved, angle)
    ELSE IF angle < acc.labeled[closeIdx].angle
    THEN PushLabel(EvictLabel(acc.labels, scoped, polygonId, acc.labeled[closeIdx]),
                   RemoveAt(acc.labeled, closeIdx),
                   b, polygonId, hull, index, saved, angle)
    ELSE acc

\* the vertex filters after the viewport test: angle, then proximity
FilterVertex(acc, b, polygonId, hull, index, saved, scoped, angle, minDist) ==
    IF angle > 180 - settings.minVertexAngle THEN acc
    ELSE ResolveClose(acc, b, polygonId, hull, index, saved, scoped, angle,
             FindIndex(acc.labeled, LAMBDA v :
                 (hull[index + 1].lat - v.lat) * (hull[index + 1].lat - v.lat)
                   + (hull[index + 1].lon - v.lon) * (hull[index + 1].lon - v.lon)
                 < minDist * minDist))

\* One iteration of vertexData.forEach.  acc holds this.labels and
\* labeledVertices; saved is savedPositions (empty in setLabels).
AddVertexLabel(acc, b, polygonId, hull, index, saved, scoped) ==
    IF ~Contains(b, hull[index + 1].lat, hull[index + 1].lon) THEN acc
    ELSE FilterVertex(acc, b, polygonId, hull, index, saved, scoped,
                      calculateVertexAngle(hull, index),
                      pixelsToDegrees(CosMilli(CenterLat(b)), minVertexDistance))

\* vertexData.forEach over the vertices index .. hull.length - 1
RECURSIVE VertexLoop(_, _, _, _, _, _, _)
VertexLoop(acc, b, polygonId, hull, index, saved, scoped) ==
    IF index >= Len(hull) THEN acc
    ELSE VertexLoop(AddVertexLabel(acc, b, polygonId, hull, index, saved, scoped),
                    b, polygonId, hull, index + 1, saved, scoped)

\* the body of polygons.forEach / of setLabels after removeLabels
PolygonLabels(acc, b, polygonId, hull, saved, scoped) ==
    IF Len(hull) = 0 THEN acc
    ELSE IF Len(VisibleVertices(b, hull)) = 0 THEN acc
    ELSE VertexLoop(acc, b, polygonId, hull, 0, saved, scoped)

\* polygons.forEach in updateAllLabels
RECURSIVE PolygonLoop(_, _, _, _)
PolygonLoop(acc, b, polygons, saved) ==
    IF polygons = <<>> THEN acc
    ELSE PolygonLoop(PolygonLabels(acc, b, Head(polygons).id, Head(polygons).hull,
                                   saved, FALSE),
                     b, Tail(polygons), saved)

----------------------------------------------------------------------------
(* Liang-Barsky segment / box test *)

\* the parameter t = num / den of a crossing, with the denominator made positive
Frac(num, den) == IF den < 0 THEN [n |-> -num, d |-> -den] ELSE [n |-> num, d |-> den]
FracLt(a, b) == a.n * b.d < b.n * a.d
FracLe(a, b) == a.n * b.d <= b.n * a.d

\* the interval [t0, t1] of the segment parameter
Lower(iv, t) == IF FracLt(iv.t0, t) THEN [iv EXCEPT !.t0 = t] ELSE iv
Upper(iv, t) == IF FracLt(t, iv.t1) THEN [iv EXCEPT !.t1 = t] ELSE iv

\* One edge of the box: d is dx or dy and t the crossing parameter.  The left
\* and bottom edges (entering) raise t0 when d > 0 and lower t1 when d < 0; the
\* right and top edges do the opposite.
ClipEdge(iv, d, t, entering) ==
    IF d = 0 THEN iv
    ELSE IF (d > 0) = entering THEN Lower(iv, t)
    ELSE Upper(iv, t)

\* t0 < t1
NonEmptyInside(iv) == FracLt(iv.t0, iv.t1)

\* t0 <= t1
NonEmpty(iv) == FracLe(iv.t0, iv.t1)

lineIntersectsBox(y1, x1, y2, x2, box) ==
    LET dx == x2 - x1
        dy == y2 - y1
    IN  IF \/ (x1 < box.left /\ x2 < box.left)
           \/ (x1 > box.right /\ x2 > box.right)
           \/ (y1 < box.bottom /\ y2 < box.bottom)
           \/ (y1 > box.top /\ y2 > box.top)
        THEN FALSE
        ELSE IF \/ (x1 >= box.left /\ x1 <= box.right /\ y1 >= box.bottom /\ y1 <= box.top)
                \/ (x2 >= box.left /\ x2 <= box.right /\ y2 >= box.bottom /\ y2 <= box.top)
        THEN TRUE
        ELSE IF dx = 0 /\ (x1 < box.left \/ x1 > box.right) THEN FALSE
        ELSE IF dy = 0 /\ (y1 < box.bottom \/ y1 > box.top) THEN FALSE
        ELSE NonEmpty(
                 ClipEdge(
                     ClipEdge(
                         ClipEdge(
                             ClipEdge([t0 |-> Frac(0, 1), t1 |-> Frac(1, 1)],
                                      dx, Frac(box.left - x1, dx), TRUE),
                             dx, Frac(box.right - x1, dx), FALSE),
                         dy, Frac(box.bottom - y1, dy), TRUE),
                     dy, Frac(box.top - y1, dy), FALSE))

----------------------------------------------------------------------------
(* Force solver: the five force sources of simulateStep *)

Force(lat, lon) == [lat |-> lat, lon |-> lon]
ZeroForce == Force(0, 0)
AddForce(a, b) == Force(a.lat + b.lat, a.lon + b.lon)
NegForce(a) == Force(-a.lat, -a.lon)

RECURSIVE IPow(_, _)
IPow(x, e) == IF e = 0 THEN 1 ELSE x * IPow(x, e - 1)

\* Math.pow(dist, e) from the squared distance d2
DistPow(d2, e) ==
    IF e % 2 = 0 THEN IPow(d2, e \div 2)
    ELSE IPow(d2, (e - 1) \div 2) * Sqrt(d2)

\* allVertices: the ring of every label, concatenated in label order
RECURSIVE AllVertices(_)
AllVertices(ls) ==
    IF ls = <<>> THEN <<>>
    ELSE Head(ls).polygonVertices \o AllVertices(Tail(ls))

\* isOwnVertex that never recognises the attached vertex
IsNeverOwnVertex(label, vertex) == FALSE

\* isOwnVertex
IsOwnVertex(label, vertex) ==
    /\ Abs(label.vertexLatLng.lat - vertex.lat) < 1
    /\ Abs(label.vertexLatLng.lng - vertex.lon) < 1

\* a force of the given magnitude along (dx, dy), whose length is dist
Along(dx, dy, dist, forceMagnitude) ==
    Force(Quot(dy * forceMagnitude, dist), Quot(dx * forceMagnitude, dist))

\* the padding force at offset (dx, dy) from a vertex closer than 15 px:
\* eqVertex px / (dist * 100) ^ eqFalloff
PaddingForce(dx, dy, d2, minDist) ==
    IF d2 < minDist * minDist /\ d2 > 0
    THEN Along(dx, dy, Sqrt(d2),
               Quot(pixelsToDegrees(EquatorCos, eqVertex)
                      * IPow(UnitsPerDegree, eqFalloff),
                    DistPow(d2, eqFalloff)))
    ELSE ZeroForce

\* (dx, dy) and its squared length
PaddingOffset(dx, dy) ==
    PaddingForce(dx, dy, dx * dx + dy * dy, pixelsToDegrees(EquatorCos, 15))

\* the padding repulsion one vertex exerts on one label
VertexRepulsion(label, vertex) ==
    IF IsOwnVertex(label, vertex) THEN ZeroForce
    ELSE PaddingOffset(label.labelLatLng.lng - vertex.lon,
                       label.labelLatLng.lat - vertex.lat)

\* allVertices.forEach for one label
RECURSIVE VertexPadding(_, _)
VertexPadding(label, vertices) ==
    IF vertices = <<>> THEN ZeroForce
    ELSE AddForce(VertexRepulsion(label, Head(vertices)),
                  VertexPadding(label, Tail(vertices)))

\* half of a pixel length in lattice units
HalfExtent(pixels) == Quot(pixelsToDegrees(EquatorCos, pixels), 2)

\* the box around center with the given half extents
BoxAround(center, halfWidth, halfHeight) ==
    [ left   |-> center.lng - halfWidth,
      right  |-> center.lng + halfWidth,
      bottom |-> center.lat - halfHeight,
      top    |-> center.lat + halfHeight ]

\* the bounding box of a label grown by bufferPx pixels
LabelBox(label, bufferPx) ==
    BoxAround(label.labelLatLng,
              HalfExtent(label.width) + pixelsToDegrees(EquatorCos, bufferPx),
              HalfExtent(label.height) + pixelsToDegrees(EquatorCos, bufferPx))

\* AABB collision test
Overlapping(box1, box2) ==
    ~ ( \/ box1.right < box2.left
        \/ box1.left > box2.right
        \/ box1.top < box2.bottom
        \/ box1.bottom > box2.top )

\* the force of two overlapping labels: the overlap push along each axis plus
\* the radial penetration force (a fixed diagonal push when the centres coincide)
OverlapForce(dx, dy, pushX, pushY, centerDist, penetrationForce) ==
    IF dx * dx + dy * dy > 0
    THEN Force((IF dy # 0 THEN Sign(dy) * pushY ELSE pushY)
                 + Quot(dy * penetrationForce, centerDist),
               (IF dx # 0 THEN Sign(dx) * pushX ELSE pushX)
                 + Quot(dx * penetrationForce, centerDist))
    ELSE Force((IF dy # 0 THEN Sign(dy) * pushY ELSE pushY)
                 + pixelsToDegrees(EquatorCos, 10),
               (IF dx # 0 THEN Sign(dx) * pushX ELSE pushX)
                 + pixelsToDegrees(EquatorCos, 10))

\* overlap * 0.5 * (eqLabel / 30) per axis, and eqLabel px / (centerDist + 2 px)
PairForce(dx, dy, extentX, extentY, centerDist) ==
    OverlapForce(dx, dy,
                 Quot((extentX - Abs(dx)) * eqLabel, 60),
                 Quot((extentY - Abs(dy)) * eqLabel, 60),
                 centerDist,
                 Quot(pixelsToDegrees(EquatorCos, eqLabel) * UnitsPerDegree,
                      centerDist + pixelsToDegrees(EquatorCos, 2)))

\* (fx, fy) of the pair (label1, label2): subtracted from label1, added to label2
PairRepulsion(label1, label2) ==
    IF ~Overlapping(LabelBox(label1, 5), LabelBox(label2, 5)) THEN ZeroForce
    ELSE PairForce(label2.labelLatLng.lng - label1.labelLatLng.lng,
                   label2.labelLatLng.lat - label1.labelLatLng.lat,
                   HalfExtent(label1.width) + HalfExtent(label2.width)
                     + pixelsToDegrees(EquatorCos, 5) * 2,
                   HalfExtent(label1.height) + HalfExtent(label2.height)
                     + pixelsToDegrees(EquatorCos, 5) * 2,
                   Hypot(label2.labelLatLng.lng - label1.labelLatLng.lng,
                         label2.labelLatLng.lat - label1.labelLatLng.lat))

\* a pair force added to both labels of the pair
ShareAlike(isFirst, f) == f

\* forces[i] -= f when labels[i] is the first label of the pair,
\* forces[i] += f when it is the second
Share(isFirst, f) == IF isFirst THEN NegForce(f) ELSE f

\* the share of labels[i] in the force of the pair it forms with labels[j]
PairShare(ls, i, j) ==
    IF j = i THEN ZeroForce
    ELSE Share(i < j, PairRepulsion(ls[Min(i, j)], ls[Max(i, j)]))

\* the label-repulsion total on labels[i]
RECURSIVE LabelRepulsion(_, _, _)
LabelRepulsion(ls, i, j) ==
    IF j > Len(ls) THEN ZeroForce
    ELSE AddForce(PairShare(ls, i, j), LabelRepulsion(ls, i, j + 1))

\* elastic spring toward the vertex
SpringForce(label) ==
    LET dx == label.vertexLatLng.lng - label.labelLatLng.lng
        dy == label.vertexLatLng.lat - label.labelLatLng.lat
        springMultiplier == IF label.vertexIndex % 2 = 1 THEN 2 ELSE 1
        effectiveSpringTenths == springStrengthTenths * springMultiplier
    IN  IF dx * dx + dy * dy > 0
        THEN Force(Quot(dy * effectiveSpringTenths, 10),
                   Quot(dx * effectiveSpringTenths, 10))
        ELSE ZeroForce

\* the centre force at offset (centerDx, centerDy) from the ring's centre:
\* eqCenter px / (centerDist * 100) ^ (eqFalloff - 1)
CenterForce(centerDx, centerDy, d2) ==
    IF d2 > 0
    THEN Along(centerDx, centerDy, Sqrt(d2),
               Quot(pixelsToDegrees(EquatorCos, eqCenter)
                      * IPow(UnitsPerDegree, eqFalloff - 1),
                    DistPow(d2, eqFalloff - 1)))
    ELSE ZeroForce

\* (centerDx, centerDy) and its squared length
CenterOffset(centerDx, centerDy) ==
    CenterForce(centerDx, centerDy, centerDx * centerDx + centerDy * centerDy)

\* repulsion from the centre of the label's ring
CenterRepulsion(label) ==
    IF Len(label.polygonVertices) > 0
    THEN CenterOffset(
             label.labelLatLng.lng
               - Quot(SumLon(label.polygonVertices), Len(label.polygonVertices)),
             label.labelLatLng.lat
               - Quot(SumLat(label.polygonVertices), Len(label.polygonVertices)))
    ELSE ZeroForce

\* the push of pushStrength (3 px) along the vector from the middle of the
\* leader line to the label, given doubled as (pushDx2, pushDy2)
PushAway(pushDx2, pushDy2) ==
    IF pushDx2 * pushDx2 + pushDy2 * pushDy2 > 0
    THEN Along(pushDx2, pushDy2, Hypot(pushDx2, pushDy2),
               pixelsToDegrees(EquatorCos, 3))
    ELSE ZeroForce

\* the push on label away from otherLabel's leader line
LeaderPush(label, otherLabel) ==
    IF lineIntersectsBox(otherLabel.vertexLatLng.lat, otherLabel.vertexLatLng.lng,
                         otherLabel.labelLatLng.lat, otherLabel.labelLatLng.lng,
                         LabelBox(label, 2))
    THEN PushAway(2 * label.labelLatLng.lng
                    - (otherLabel.vertexLatLng.lng + otherLabel.labelLatLng.lng),
                  2 * label.labelLatLng.lat
                    - (otherLabel.vertexLatLng.lat + otherLabel.labelLatLng.lat))
    ELSE ZeroForce

\* leader-line avoidance on labels[i] from every other label
RECURSIVE LeaderAvoidance(_, _, _)
LeaderAvoidance(ls, i, j) ==
    IF j > Len(ls) THEN ZeroForce
    ELSE AddForce(IF j # i THEN LeaderPush(ls[i], ls[j]) ELSE ZeroForce,
                  LeaderAvoidance(ls, i, j + 1))

\* forces[i] at the end of the accumulation loops
ForceOn(ls, i) ==
    AddForce(VertexPadding(ls[i], AllVertices(ls)),
    AddForce(LabelRepulsion(ls, i, 1),
    AddForce(SpringForce(ls[i]),
    AddForce(CenterRepulsion(ls[i]),
             LeaderAvoidance(ls, i, 1)))))

----------------------------------------------------------------------------
(* Force solver: integration and constraints of simulateStep *)

\* an entry of this.velocities / this.previousPositions; def = FALSE is a
\* missing (undefined) array element
Undefined == [def |-> FALSE, lat |-> 0, lon |-> 0]
Entry(lat, lon) == [def |-> TRUE, lat |-> lat, lon |-> lon]
EntryAt(arr, i) == IF i <= Len(arr) THEN arr[i] ELSE Undefined

\* forces[i] * forceScale (0.15)
ScaleForce(f) ==
    IF Abs(f) > 100000000 THEN Quot(f, forceScaleDen) * forceScaleNum
    ELSE Quot(f * forceScaleNum, forceScaleDen)

\* vertexDist > maxDist
BeyondMaxDist(dx, dy, maxDist) ==
    \/ Abs(dx) > maxDist
    \/ Abs(dy) > maxDist
    \/ dx * dx + dy * dy > maxDist * maxDist

\* (vertexDx * scale, vertexDy * scale) with scale = maxDist / vertexDist.
\* Very long vectors are first shortened along their direction so that the
\* squares fit the integer range; the distance is rounded up so that the
\* lattice point is not outside the circle the real-valued point lies on.
ClampToMaxDist(dx, dy, maxDist) ==
    LET k   == (Max(Abs(dx), Abs(dy)) \div 16384) + 1
        sdx == Quot(dx, k)
        sdy == Quot(dy, k)
        vertexDist == SqrtUp(sdx * sdx + sdy * sdy)
    IN  [dx |-> Quot(sdx * maxDist, vertexDist), dy |-> Quot(sdy * maxDist, vertexDist)]

\* the outcome of the integration of one label: the label at its final
\* position, its velocity and previous-position entries, its kinetic energy
Placed(label, velLat, velLng, previous, clampedLat, clampedLng) ==
    [ label |-> [label EXCEPT !.labelLatLng = LatLng(clampedLat, clampedLng)],
      velocity |-> Entry(velLat, velLng),
      previous |-> previous,
      energy |-> velLat * velLat + velLng * velLng ]

\* hitBounds: the viewport clamp moved the label, which restarts its
\* previous position a tenth of the velocity behind the clamped position
ClampResult(label, velLat, velLng, newLat, newLng, previous, clampedLat, clampedLng) ==
    Placed(label, velLat, velLng,
           IF clampedLat # newLat \/ clampedLng # newLng
           THEN Entry(clampedLat - Quot(velLat, 10), clampedLng - Quot(velLng, 10))
           ELSE previous,
           clampedLat, clampedLng)

\* the integrated position taken as it is, without the viewport clamp
PlaceUnclamped(label, velLat, velLng, newLat, newLng, previous, b) ==
    Placed(label, velLat, velLng, previous, newLat, newLng)

\* keep the label inside the viewport, padded by half its size plus 10 px
ClampToViewport(label, velLat, velLng, newLat, newLng, previous, b) ==
    ClampResult(label, velLat, velLng, newLat, newLng, previous,
        Max(b.south + pixelsToDegreesFrac(EquatorCos, label.height + 20, 2),
            Min(b.north - pixelsToDegreesFrac(EquatorCos, label.height + 20, 2),
                newLat)),
        Max(b.west + pixelsToDegreesFrac(EquatorCos, label.width + 20, 2),
            Min(b.east - pixelsToDegreesFrac(EquatorCos, label.width + 20, 2),
                newLng)))

\* the label pulled back onto the circle of radius maxDist around its
\* vertex; the previous position keeps 0.3 of the velocity
PullBack(label, velLat, velLng, clamped, b) ==
    ClampToViewport(label, velLat, velLng,
        label.vertexLatLng.lat + clamped.dy,
        label.vertexLatLng.lng + clamped.dx,
        Entry(label.vertexLatLng.lat + clamped.dy - Quot(velLat * 3, 10),
              label.vertexLatLng.lng + clamped.dx - Quot(velLng * 3, 10)),
        b)

\* the constraints on the integrated position (newLat, newLng): the maximum
\* distance from the vertex first, the viewport after it
Constrain(label, velLat, velLng, newLat, newLng, maxDist, b) ==
    IF BeyondMaxDist(newLng - label.vertexLatLng.lng,
                     newLat - label.vertexLatLng.lat, maxDist)
    THEN PullBack(label, velLat, velLng,
                  ClampToMaxDist(newLng - label.vertexLatLng.lng,
                                 newLat - label.vertexLatLng.lat, maxDist),
                  b)
    ELSE ClampToViewport(label, velLat, velLng, newLat, newLng,
                         Entry(label.labelLatLng.lat, label.labelLatLng.lng), b)

\* newPos = current + velocity + force * forceScale
Advance(label, force, velLat, velLng, b) ==
    Constrain(label, velLat, velLng,
              label.labelLatLng.lat + velLat + ScaleForce(force.lat),
              label.labelLatLng.lng + velLng + ScaleForce(force.lon),
              pixelsToDegrees(EquatorCos, maxLabelDistance), b)

\* Verlet integration: the implicit velocity (current - previous) * damping
Verlet(label, force, prevLat, prevLng, b) ==
    Advance(label, force,
            Quot((label.labelLatLng.lat - prevLat) * dampingTenths, 10),
            Quot((label.labelLatLng.lng - prevLng) * dampingTenths, 10),
            b)

\* the integration with the manuallyPositioned test left out
IntegrateEvery(label, force, velocity, previous, b) ==
    Verlet(label, force,
           IF previous.def THEN previous.lat ELSE label.labelLatLng.lat,
           IF previous.def THEN previous.lon ELSE label.labelLatLng.lng,
           b)

\* the body of the integration forEach for labels[i]; previous is
\* previousPositions[i], the current position when that entry is missing
Integrate(label, force, velocity, previous, b) ==
    IF label.manuallyPositioned
    THEN [label |-> label, velocity |-> velocity, previous |-> previous, energy |-> 0]
    ELSE Verlet(label, force,
                IF previous.def THEN previous.lat ELSE label.labelLatLng.lat,
                IF previous.def THEN previous.lon ELSE label.labelLatLng.lng,
                b)

\* the array after the integration loop wrote the entries of the labels it
\* integrated: untouched entries keep their value, skipped indexes beyond the
\* old length stay holes
WrittenLength(ls, arr) ==
    LET written == {i \in 1..Len(ls) : ~ls[i].manuallyPositioned}
    IN  Max(Len(arr), IF written = {} THEN 0
                      ELSE CHOOSE i \in written : \A j \in written : j <= i)

RECURSIVE SumEnergy(_, _)
SumEnergy(results, i) ==
    IF i > Len(results) THEN 0 ELSE results[i].energy + SumEnergy(results, i + 1)

\* this.labels.forEach((label, i) => ...) of the integration, from index i on
RECURSIVE IntegrateFrom(_, _, _, _, _)
IntegrateFrom(ls, vels, prevs, b, i) ==
    IF i > Len(ls) THEN <<>>
    ELSE <<Integrate(ls[i], ForceOn(ls, i), EntryAt(vels, i), EntryAt(prevs, i), b)>>
         \o IntegrateFrom(ls, vels, prevs, b, i + 1)

RECURSIVE LabelsOf(_)
LabelsOf(results) ==
    IF results = <<>> THEN <<>>
    ELSE <<Head(results).label>> \o LabelsOf(Tail(results))

\* arr with the entries the integration wrote, from index i on; field is
\* "velocity" or "previous"
RECURSIVE Written(_, _, _, _, _)
Written(results, arr, field, n, i) ==
    IF i > n THEN <<>>
    ELSE <<IF i <= Len(results) THEN results[i][field] ELSE arr[i]>>
         \o Written(results, arr, field, n, i + 1)

\* what simulateStep leaves and returns, from the results of the integration
StepOutcome(results, ls, vels, prevs) ==
    [ labels |-> LabelsOf(results),
      velocities |-> Written(results, vels, "velocity", WrittenLength(ls, vels), 1),
      previousPositions |->
          Written(results, prevs, "previous", WrittenLength(ls, prevs), 1),
      energy |-> SumEnergy(results, 1) ]

\* simulateStep(): the labels, velocities and previous positions after the
\* step and the returned total kinetic energy
simulateStep(ls, vels, prevs, b) ==
    StepOutcome(IntegrateFrom(ls, vels, prevs, b, 1), ls, vels, prevs)

----------------------------------------------------------------------------
(* Polygon names and the debug overlay *)

Infinity == 2000000000

\* the squared distance from a candidate to the nearest label (Infinity when
\* there is no label)
RECURSIVE MinDist2(_, _)
MinDist2(candidate, ls) ==
    IF ls = <<>> THEN Infinity
    ELSE LET dx == candidate.lon - Head(ls).labelLatLng.lng
             dy == candidate.lat - Head(ls).labelLatLng.lat
         IN  Min(dx * dx + dy * dy, MinDist2(candidate, Tail(ls)))

\* candidatesToCheck.forEach: best is [position, clearance2]
RECURSIVE BestCandidate(_, _, _)
BestCandidate(candidates, ls, best) ==
    IF candidates = <<>> THEN best.position
    ELSE LET minDist2 == MinDist2(Head(candidates), ls)
         IN  BestCandidate(Tail(candidates), ls,
                 IF minDist2 > best.clearance2
                 THEN [position |-> Head(candidates), clearance2 |-> minDist2]
                 ELSE best)

\* findPolygonNamePosition for a polygon with a non-empty hull
findPolygonNamePosition(hull, ls, b) ==
    LET centerLat == Quot(SumLat(hull), Len(hull))
        centerLon == Quot(SumLon(hull), Len(hull))
        cosM == CosMilli(centerLat)
        off  == pixelsToDegrees(cosM, 40)
        candidates ==
            << Vertex(centerLat, centerLon),
               Vertex(centerLat + off, centerLon),
               Vertex(centerLat - off, centerLon),
               Vertex(centerLat, centerLon + off),
               Vertex(centerLat, centerLon - off) >>
        visibleCandidates == VisibleVertices(b, candidates)
        padding == pixelsToDegrees(cosM, 50)
        clampedLat == Max(b.south + padding, Min(b.north - padding, centerLat))
        clampedLon == Max(b.west + padding, Min(b.east - padding, centerLon))
        candidatesToCheck ==
            IF Len(visibleCandidates) > 0 THEN visibleCandidates
            ELSE << Vertex(clampedLat, clampedLon) >>
    IN  BestCandidate(candidatesToCheck, ls,
                      [position |-> Vertex(centerLat, centerLon), clearance2 |-> 0])

\* renderPolygonNames(polygons): the new polygonNameMarkers, polygon id -> position
renderPolygonNames(polygons, ls, b) ==
    LET named == {i \in 1..Len(polygons) :
                    Len(polygons[i].hull) > 0 /\ polygons[i].name # ""}
        ids == {polygons[i].id : i \in named}
    IN  [id \in ids |->
           LET i == CHOOSE n \in named : polygons[n].id = id
                       /\ \A m \in named : polygons[m].id = id => m <= n
           IN  findPolygonNamePosition(polygons[i].hull, ls, b)]

\* renderDebugFields(): the number of layers in debugLayers afterwards
renderDebugFields(show, ls) ==
    LET centers == {ls[i].polygonId : i \in {n \in 1..Len(ls) :
                                              Len(ls[n].polygonVertices) > 0}}
    IN  IF ~show THEN 0
        ELSE 4 * Len(AllVertices(ls)) + 2 * Len(ls) + 6 * Cardinality(centers)

\* renderLabels(): the keys that have a marker / a leader line afterwards
renderLabels(keys, ls) == keys \cup {ls[i].key : i \in 1..Len(ls)}

----------------------------------------------------------------------------
(* Bounds of the exploration *)

\* user operations (map moves, polygon edits, API calls, drag gestures) in
\* one behaviour
MaxOps == 4

----------------------------------------------------------------------------
(* State *)

VARIABLES
    bounds,              \* map.getBounds(), the current viewport
    polygonData,         \* MapManager.polygonData: polygon ids in insertion order
    labels,              \* LabelManager.labels
    labelMarkers,        \* keys of LabelManager.labelMarkers
    leaderLines,         \* keys of LabelManager.leaderLines
    polygonNameMarkers,  \* LabelManager.polygonNameMarkers: polygon id -> position
    debugLayers,         \* number of layers in LabelManager.debugLayers
    showDebugFields,
    isSimulating,
    manuallyPositioned,  \* LabelManager.manuallyPositioned, a set of keys
    velocities,
    previousPositions,
    rafQueue,            \* the animate closures waiting for the next animation frame
    drag,                \* the marker drag gesture in progress; history: where drags ended
    completed,           \* history: the runs that completed in the last frame
    everManual,          \* history: keys whose label has had manuallyPositioned = true
                         \* since the last clear()
    lastOp,              \* history: the handler that ran last
    opCount,             \* history: the user operations so far
    segmentTest          \* the arguments and the result of a lineIntersectsBox call

vars == << bounds, polygonData, labels, labelMarkers, leaderLines,
           polygonNameMarkers, debugLayers, showDebugFields, isSimulating,
           manuallyPositioned, velocities, previousPositions, rafQueue, drag,
           completed, everManual, lastOp, opCount, settings, segmentTest >>

\* no lineIntersectsBox call is followed
NoSegmentTest == [tested |-> FALSE]

\* no gesture in progress and none so far; ended is the history of the
\* gestures: the key and the label position of every dragend
NoDrag == [phase |-> "idle", key |-> <<0, 0>>, ended |-> {}]

\* the LabelManager fields the operations below read and write
Manager ==
    [ labels |-> labels,
      labelMarkers |-> labelMarkers,
      leaderLines |-> leaderLines,
      polygonNameMarkers |-> polygonNameMarkers,
      debugLayers |-> debugLayers,
      showDebugFields |-> showDebugFields,
      isSimulating |-> isSimulating,
      manuallyPositioned |-> manuallyPositioned,
      velocities |-> velocities,
      previousPositions |-> previousPositions,
      rafQueue |-> rafQueue,
      completed |-> {} ]

FlaggedKeys(ls) == {ls[i].key : i \in {n \in 1..Len(ls) : ls[n].manuallyPositioned}}

\* the LabelManager fields after a handler left them as m
InstallManager(m) ==
    /\ labels' = m.labels
    /\ labelMarkers' = m.labelMarkers
    /\ leaderLines' = m.leaderLines
    /\ polygonNameMarkers' = m.polygonNameMarkers
    /\ debugLayers' = m.debugLayers
    /\ showDebugFields' = m.showDebugFields
    /\ isSimulating' = m.isSimulating
    /\ manuallyPositioned' = m.manuallyPositioned
    /\ velocities' = m.velocities
    /\ previousPositions' = m.previousPositions
    /\ rafQueue' = m.rafQueue
    /\ completed' = m.completed
    /\ UNCHANGED << settings, segmentTest >>

\* the state after a handler left the LabelManager as m
Install(m) ==
    /\ InstallManager(m)
    /\ everManual' = everManual \cup FlaggedKeys(m.labels)

Init ==
    /\ bounds = [south |-> 0, north |-> 700, west |-> 0, east |-> 1000]
    /\ polygonData = <<>>
    /\ labels = <<>>
    /\ labelMarkers = {}
    /\ leaderLines = {}
    /\ polygonNameMarkers = <<>>
    /\ debugLayers = 0
    /\ showDebugFields = FALSE
    /\ isSimulating = FALSE
    /\ manuallyPositioned = {}
    /\ velocities = <<>>
    /\ previousPositions = <<>>
    /\ rafQueue = <<>>
    /\ drag = NoDrag
    /\ completed = {}
    /\ everManual = {}
    /\ lastOp = "constructor"
    /\ opCount = 0
    /\ settings = DefaultSettings
    /\ segmentTest = NoSegmentTest

----------------------------------------------------------------------------
(* Simulation scheduler *)

\* the closure of one startSimulation call: the variables animate captures.
\* previousEnergy holds stepsPerFrame * avgEnergy (Infinity at the start);
\* stoppedAt is history: the iteration count at which stopSimulation
\* interrupted this run, -1 while it has not been stopped.
NewRun(hasPolygons, polygons) ==
    [ iterationCount |-> 0,
      previousEnergy |-> Infinity,
      stableCount |-> 0,
      hasPolygons |-> hasPolygons,
      polygonsForNames |-> polygons,
      stoppedAt |-> -1 ]

startSimulation(m, hasPolygons, polygons) ==
    IF m.isSimulating THEN m
    ELSE [ m EXCEPT
             !.isSimulating = TRUE,
             !.velocities = [i \in 1..Len(m.labels) |-> Entry(0, 0)],
             !.previousPositions =
                 [i \in 1..Len(m.labels) |->
                    Entry(m.labels[i].labelLatLng.lat, m.labels[i].labelLatLng.lng)],
             !.rafQueue = Append(m.rafQueue, NewRun(hasPolygons, polygons)) ]

stopSimulation(m) ==
    [ m EXCEPT
        !.isSimulating = FALSE,
        !.rafQueue = [i \in 1..Len(m.rafQueue) |->
                        IF m.rafQueue[i].stoppedAt = -1
                        THEN [m.rafQueue[i] EXCEPT
                                !.stoppedAt = m.rafQueue[i].iterationCount]
                        ELSE m.rafQueue[i]] ]

\* totalEnergy += energy; iterationCount++
AfterStep(st, r) ==
    [ labels |-> r.labels,
      velocities |-> r.velocities,
      previousPositions |-> r.previousPositions,
      totalEnergy |-> st.totalEnergy + r.energy,
      iterationCount |-> st.iterationCount + 1 ]

\* the for loop of animate: up to stepsPerFrame calls of simulateStep
RECURSIVE StepLoop(_, _, _)
StepLoop(st, i, b) ==
    IF i < stepsPerFrame /\ st.iterationCount < settings.iterations
    THEN StepLoop(AfterStep(st, simulateStep(st.labels, st.velocities,
                                             st.previousPositions, b)),
                  i + 1, b)
    ELSE st

\* avgEnergy < 0.0001 || Math.abs(avgEnergy - previousEnergy) < 0.00001, on
\* energies multiplied by stepsPerFrame; 0.0001 square degrees is one square
\* lattice unit and 0.00001 is a tenth of one
Stable(totalEnergy, previousEnergy) ==
    \/ totalEnergy < stepsPerFrame
    \/ /\ previousEnergy # Infinity
       /\ 10 * Abs(totalEnergy - previousEnergy) < stepsPerFrame

\* the stepping branch of animate whose unstable tick keeps the stable count
animateStepKeepingCount(m, c, st) ==
    [ m EXCEPT
        !.labels = st.labels,
        !.velocities = st.velocities,
        !.previousPositions = st.previousPositions,
        !.labelMarkers = renderLabels(m.labelMarkers, st.labels),
        !.leaderLines = renderLabels(m.leaderLines, st.labels),
        !.rafQueue = Append(m.rafQueue,
            [ c EXCEPT
                !.iterationCount = st.iterationCount,
                !.stableCount = IF Stable(st.totalEnergy, c.previousEnergy)
                                THEN c.stableCount + 1 ELSE c.stableCount,
                !.previousEnergy = st.totalEnergy ]) ]

\* the stepping branch of animate: st is the outcome of the for loop; the
\* run re-registers itself for the next frame
animateStep(m, c, st) ==
    [ m EXCEPT
        !.labels = st.labels,
        !.velocities = st.velocities,
        !.previousPositions = st.previousPositions,
        !.labelMarkers = renderLabels(m.labelMarkers, st.labels),
        !.leaderLines = renderLabels(m.leaderLines, st.labels),
        !.rafQueue = Append(m.rafQueue,
            [ c EXCEPT
                !.iterationCount = st.iterationCount,
                !.stableCount = IF Stable(st.totalEnergy, c.previousEnergy)
                                THEN c.stableCount + 1 ELSE 0,
                !.previousEnergy = st.totalEnergy ]) ]

\* the final branch of animate without its completion callbacks
animateCompleteSilent(m, c, b) ==
    [ m EXCEPT
        !.isSimulating = FALSE,
        !.labelMarkers = renderLabels(m.labelMarkers, m.labels),
        !.leaderLines = renderLabels(m.leaderLines, m.labels),
        !.completed = m.completed \cup
            {[ interrupted |-> c.stoppedAt # -1,
               names |-> c.hasPolygons,
               debug |-> m.showDebugFields ]} ]

\* the final branch of animate: the run ends and calls its completion callbacks
animateComplete(m, c, b) ==
    [ m EXCEPT
        !.isSimulating = FALSE,
        !.labelMarkers = renderLabels(m.labelMarkers, m.labels),
        !.leaderLines = renderLabels(m.leaderLines, m.labels),
        !.polygonNameMarkers =
            IF c.hasPolygons
            THEN renderPolygonNames([i \in 1..Len(c.polygonsForNames) |->
                                       Polygon(c.polygonsForNames[i])],
                                    m.labels, b)
            ELSE m.polygonNameMarkers,
        !.debugLayers =
            IF m.showDebugFields THEN renderDebugFields(TRUE, m.labels)
            ELSE m.debugLayers,
        !.completed = m.completed \cup
            {[ interrupted |-> c.stoppedAt # -1,
               names |-> c.hasPolygons,
               debug |-> m.showDebugFields ]} ]

\* animate whose final branch re-arms the run instead of ending it
animateRearmed(m, c, b) ==
    IF c.iterationCount < settings.iterations /\ c.stableCount < stableThreshold
    THEN animateStep(m, c,
             StepLoop([ labels |-> m.labels,
                        velocities |-> m.velocities,
                        previousPositions |-> m.previousPositions,
                        totalEnergy |-> 0,
                        iterationCount |-> c.iterationCount ],
                      0, b))
    ELSE [ m EXCEPT
             !.rafQueue = Append(m.rafQueue,
                 [c EXCEPT !.iterationCount = 0, !.stableCount = 0]) ]

\* one call of animate for the run c
animate(m, c, b) ==
    IF c.iterationCount < settings.iterations /\ c.stableCount < stableThreshold
    THEN animateStep(m, c,
             StepLoop([ labels |-> m.labels,
                        velocities |-> m.velocities,
                        previousPositions |-> m.previousPositions,
                        totalEnergy |-> 0,
                        iterationCount |-> c.iterationCount ],
                      0, b))
    ELSE animateComplete(m, c, b)

\* the browser runs the callbacks registered for this frame in order
RECURSIVE RunCallbacks(_, _, _)
RunCallbacks(m, callbacks, b) ==
    IF callbacks = <<>> THEN m
    ELSE RunCallbacks(animate(m, Head(callbacks), b), Tail(callbacks), b)

----------------------------------------------------------------------------
(* Label catalog operations of LabelManager *)

KeysOf(ls) == {ls[i].key : i \in 1..Len(ls)}

\* if (this.labels.length === 0) this.stopSimulation()
StopIfEmpty(m) == IF Len(m.labels) = 0 THEN stopSimulation(m) ELSE m

\* the keys removeLabelMarker is called for
RemovedKeys(ls, polygonId) ==
    {ls[i].key : i \in {n \in 1..Len(ls) : ls[n].polygonId = polygonId}}

\* removeLabels that leaves the markers and leader lines on the map
removeLabelsOnly(m, polygonId) ==
    StopIfEmpty([ m EXCEPT
                    !.labels = SelectSeq(m.labels, LAMBDA l : l.polygonId # polygonId) ])

removeLabels(m, polygonId) ==
    StopIfEmpty([ m EXCEPT
                    !.labels = SelectSeq(m.labels, LAMBDA l : l.polygonId # polygonId),
                    !.labelMarkers = m.labelMarkers \ RemovedKeys(m.labels, polygonId),
                    !.leaderLines = m.leaderLines \ RemovedKeys(m.labels, polygonId) ])

clear(m) ==
    stopSimulation([ m EXCEPT
                       !.labels = <<>>,
                       !.leaderLines = m.leaderLines \ m.labelMarkers,
                       !.labelMarkers = {},
                       !.polygonNameMarkers = <<>> ])

\* the end of setLabels: this.labels holds the new labels; renderLabels() and
\* startSimulation()
PlaceLabels(m1, ls) ==
    startSimulation([ m1 EXCEPT
                        !.labels = ls,
                        !.labelMarkers = renderLabels(m1.labelMarkers, ls),
                        !.leaderLines = renderLabels(m1.leaderLines, ls) ],
                    FALSE, <<>>)

\* setLabels after its removeLabels(polygonId) left the manager as m1
SelectLabels(m1, polygonId, vertices, b) ==
    IF Len(vertices) = 0 THEN m1
    ELSE IF Len(VisibleVertices(b, vertices)) = 0 THEN m1
    ELSE PlaceLabels(m1, PolygonLabels([labels |-> m1.labels, labeled |-> <<>>],
                                       b, polygonId, vertices, <<>>, TRUE).labels)

\* setLabels without its removeLabels(polygonId)
setLabelsKeepingOld(m, polygonId, vertices, b) ==
    SelectLabels(m, polygonId, vertices, b)

setLabels(m, polygonId, vertices, b) ==
    SelectLabels(removeLabels(m, polygonId), polygonId, vertices, b)

\* savedPositions left empty
SavedNothing(m) == <<>>

\* savedPositions: key -> position of the labels whose key is in this.manuallyPositioned
SavedPositions(m) ==
    LET savedIdx == {i \in 1..Len(m.labels) : m.labels[i].key \in m.manuallyPositioned}
    IN  [k \in {m.labels[i].key : i \in savedIdx} |->
           LET i == CHOOSE n \in savedIdx :
                       /\ m.labels[n].key = k
                       /\ \A o \in savedIdx : m.labels[o].key = k => o <= n
           IN  m.labels[i].labelLatLng]

\* the end of an updateAllLabels that leaves the old markers on the map
RenderRebuiltOverOld(m, polygonIds, polygons, ls, b) ==
    IF Len(ls) > 0
    THEN startSimulation(
             [ m EXCEPT
                 !.labels = ls,
                 !.labelMarkers = renderLabels(m.labelMarkers, ls),
                 !.leaderLines = renderLabels(m.leaderLines, ls) ],
             TRUE, polygonIds)
    ELSE [ m EXCEPT
             !.labels = ls,
             !.polygonNameMarkers = renderPolygonNames(polygons, ls, b) ]

\* the end of updateAllLabels: ls is the rebuilt this.labels (the markers and
\* leader lines of the old labels are removed first)
RenderRebuilt(m, polygonIds, polygons, ls, b) ==
    IF Len(ls) > 0
    THEN startSimulation(
             [ m EXCEPT
                 !.labels = ls,
                 !.labelMarkers = renderLabels({}, ls),
                 !.leaderLines = renderLabels(m.leaderLines \ m.labelMarkers, ls) ],
             TRUE, polygonIds)
    ELSE [ m EXCEPT
             !.labels = ls,
             !.labelMarkers = {},
             !.leaderLines = m.leaderLines \ m.labelMarkers,
             !.polygonNameMarkers = renderPolygonNames(polygons, ls, b) ]

\* updateAllLabels for the polygon objects
RebuildLabels(m, polygonIds, polygons, b) ==
    RenderRebuilt(m, polygonIds, polygons,
                  PolygonLoop([labels |-> <<>>, labeled |-> <<>>], b, polygons,
                              SavedPositions(m)).labels,
                  b)

\* updateAllLabels(polygons), polygons given by their ids
updateAllLabels(m, polygonIds, b) ==
    RebuildLabels(m, polygonIds,
                  [i \in 1..Len(polygonIds) |-> Polygon(polygonIds[i])], b)

\* toggleDebugFields that also halts the run in progress
toggleDebugFieldsHalting(m, show) ==
    [ stopSimulation(m) EXCEPT
        !.showDebugFields = show,
        !.debugLayers = renderDebugFields(show, m.labels) ]

toggleDebugFields(m, show) ==
    [ m EXCEPT
        !.showDebugFields = show,
        !.debugLayers = renderDebugFields(show, m.labels) ]

----------------------------------------------------------------------------
(* MapManager operations *)

Without(ids, id) == SelectSeq(ids, LAMBDA x : x # id)

\* removePolygon(polygonId): the new polygonData and LabelManager
removePolygon(data, m, polygonId, b) ==
    [ data |-> Without(data, polygonId),
      m |-> updateAllLabels(m, Without(data, polygonId), b) ]

\* addPolygon after its removePolygon(polygonId) left r
StorePolygon(r, polygonId, b) ==
    IF Len(HullOf(polygonId)) < 3 THEN r
    ELSE [ data |-> Append(r.data, polygonId),
           m |-> updateAllLabels(r.m, Append(r.data, polygonId), b) ]

\* addPolygon(polygonId, hull, color, name)
addPolygon(data, m, polygonId, b) ==
    StorePolygon(removePolygon(data, m, polygonId, b), polygonId, b)

----------------------------------------------------------------------------
(* Actions *)

Idle == drag.phase = "idle"

HostOp(name) ==
    /\ Idle
    /\ opCount < MaxOps
    /\ opCount' = opCount + 1
    /\ lastOp' = name
    /\ UNCHANGED drag

\* the map's moveend handler: the view changed, refreshAllLabels()
MoveEnd(v) ==
    /\ HostOp("updateAllLabels")
    /\ bounds' = v
    /\ Install(updateAllLabels(Manager, polygonData, v))
    /\ UNCHANGED polygonData

\* the state after a MapManager operation left r
InstallMap(r) ==
    /\ polygonData' = r.data
    /\ Install(r.m)

AddPolygon(id) ==
    /\ \A i \in 1..Len(polygonData) : polygonData[i] # id
    /\ HostOp("updateAllLabels")
    /\ InstallMap(addPolygon(polygonData, Manager, id, bounds))
    /\ UNCHANGED bounds

RemovePolygon(id) ==
    /\ \E i \in 1..Len(polygonData) : polygonData[i] = id
    /\ HostOp("updateAllLabels")
    /\ InstallMap(removePolygon(polygonData, Manager, id, bounds))
    /\ UNCHANGED bounds

SetLabels(id) ==
    /\ \E i \in 1..Len(polygonData) : polygonData[i] = id
    /\ HostOp("setLabels")
    /\ Install(setLabels(Manager, id, HullOf(id), bounds))
    /\ UNCHANGED << bounds, polygonData >>

RemoveLabels(id) ==
    /\ \E i \in 1..Len(labels) : labels[i].polygonId = id
    /\ HostOp("removeLabels")
    /\ Install(removeLabels(Manager, id))
    /\ UNCHANGED << bounds, polygonData >>

Clear ==
    /\ HostOp("clear")
    /\ InstallManager(clear(Manager))
    /\ everManual' = {}
    /\ UNCHANGED << bounds, polygonData >>

ToggleDebugFields ==
    /\ HostOp("toggleDebugFields")
    /\ Install(toggleDebugFields(Manager, ~showDebugFields))
    /\ UNCHANGED << bounds, polygonData >>

\* the marker's dragstart handler
DragStart(key) ==
    /\ Idle
    /\ key \in labelMarkers
    /\ opCount < MaxOps
    /\ opCount' = opCount + 1
    /\ drag' = [drag EXCEPT !.phase = "started", !.key = key]
    /\ Install(stopSimulation(Manager))
    /\ lastOp' = "dragstart"
    /\ UNCHANGED << bounds, polygonData >>

\* the marker's drag handler: label.labelLatLng = e.target.getLatLng()
Drag(pos) ==
    /\ drag.phase = "started"
    /\ drag.key \in labelMarkers
    /\ drag' = [drag EXCEPT !.phase = "moved"]
    /\ Install([ Manager EXCEPT
                   !.labels = [i \in 1..Len(labels) |->
                                 IF labels[i].key = drag.key
                                 THEN [labels[i] EXCEPT !.labelLatLng = pos]
                                 ELSE labels[i]] ])
    /\ lastOp' = "drag"
    /\ UNCHANGED << bounds, polygonData, opCount >>

\* the marker's dragend handler: this.manuallyPositioned.add(key)
DragEnd ==
    /\ drag.phase = "moved"
    /\ drag' = [ phase |-> "idle",
                 key |-> <<0, 0>>,
                 ended |-> drag.ended \cup
                     { << drag.key, labels[i].labelLatLng >> :
                         i \in {n \in 1..Len(labels) : labels[n].key = drag.key} } ]
    /\ Install([ Manager EXCEPT
                   !.manuallyPositioned = manuallyPositioned \cup {drag.key} ])
    /\ lastOp' = "dragend"
    /\ UNCHANGED << bounds, polygonData, opCount >>

\* an animation frame: every pending animate callback runs once
Frame ==
    /\ rafQueue # <<>>
    /\ Install(RunCallbacks([Manager EXCEPT !.rafQueue = <<>>], rafQueue, bounds))
    /\ lastOp' = "frame"
    /\ UNCHANGED << bounds, polygonData, drag, opCount >>

Next ==
    \/ \E v \in Viewports : MoveEnd(v)
    \/ \E id \in PolygonIds : AddPolygon(id)
    \/ \E id \in PolygonIds : RemovePolygon(id)
    \/ \E id \in PolygonIds : SetLabels(id)
    \/ \E id \in PolygonIds : RemoveLabels(id)
    \/ Clear
    \/ ToggleDebugFields
    \/ \E key \in DragKeys : DragStart(key)
    \/ \E pos \in DragTargets : Drag(pos)
    \/ DragEnd
    \/ Frame

Spec == Init /\ [][Next]_vars

\* a step of Frame, told by the history it leaves
FrameTick == rafQueue # <<>> /\ lastOp' = "frame"

\* The browser delivers every animation frame that has a callback waiting:
\* weak fairness of Frame, with ENABLED <<Frame>>_vars written out as the
\* guard of Frame (a frame always changes rafQueue).
FairSpec == Spec /\ ([]<>(rafQueue = <<>>) \/ []<><<FrameTick>>_vars)

----------------------------------------------------------------------------
(* The solver on its own: scenes built by updateAllLabels, one label possibly
   dragged, and then one simulateStep at a time *)

\* the calls of simulateStep followed in a scene
MaxSteps == 3

\* the LabelManager after its constructor
NewManager ==
    [ labels |-> <<>>,
      labelMarkers |-> {},
      leaderLines |-> {},
      polygonNameMarkers |-> <<>>,
      debugLayers |-> 0,
      showDebugFields |-> FALSE,
      isSimulating |-> FALSE,
      manuallyPositioned |-> {},
      velocities |-> <<>>,
      previousPositions |-> <<>>,
      rafQueue |-> <<>>,
      completed |-> {} ]

\* the viewports of the scenes: those of the map and one narrower than a label
StepViewports == Viewports \cup {[south |-> 0, north |-> 700, west |-> 300, east |-> 600]}

\* where a dragged label is released, besides on top of another label
StepPositions ==
    DragTargets \cup {LatLng(210, 410), LatLng(225, 390), LatLng(520, 310)}

\* the marker's drag handler for labels[k]
DragTo(ls, k, pos) ==
    [i \in 1..Len(ls) |-> IF i = k THEN [ls[i] EXCEPT !.labelLatLng = pos] ELSE ls[i]]

\* the gesture dragstart, drag to pos, dragend on labels[k] of the manager m
DragGesture(m, k, pos) ==
    [ stopSimulation(m) EXCEPT
        !.labels = DragTo(m.labels, k, pos),
        !.manuallyPositioned = m.manuallyPositioned \cup {m.labels[k].key} ]

\* the scene: m as updateAllLabels left it, then labels[k] dragged (k = 0: no drag)
Scene(m, k, pos) == IF k = 0 THEN m ELSE DragGesture(m, k, pos)

SceneInit(data, b, m) ==
    \E k \in 0..Len(m.labels) :
        \E pos \in StepPositions \cup {m.labels[j].labelLatLng : j \in 1..Len(m.labels)} :
            /\ k = 0 => pos = LatLng(210, 410)
            /\ bounds = b
            /\ polygonData = data
            /\ labels = Scene(m, k, pos).labels
            /\ labelMarkers = m.labelMarkers
            /\ leaderLines = m.leaderLines
            /\ polygonNameMarkers = m.polygonNameMarkers
            /\ debugLayers = m.debugLayers
            /\ showDebugFields = m.showDebugFields
            /\ isSimulating = Scene(m, k, pos).isSimulating
            /\ manuallyPositioned = Scene(m, k, pos).manuallyPositioned
            /\ velocities = m.velocities
            /\ previousPositions = m.previousPositions
            /\ rafQueue = Scene(m, k, pos).rafQueue
            /\ drag = NoDrag
            /\ completed = {}
            /\ everManual = {}
            /\ lastOp = IF k = 0 THEN "updateAllLabels" ELSE "dragend"
            /\ opCount = 0
            /\ segmentTest = NoSegmentTest

\* a polygon small enough for a map that is lower and narrower than a label
\* with its padding, and the bounds of such a map
SmallPolygon ==
    [ id |-> 3,
      hull |-> << Vertex(300, 500), Vertex(330, 540), Vertex(300, 580) >>,
      name |-> "" ]

SmallViewport == [south |-> 280, north |-> 380, west |-> 400, east |-> 700]

StepInit ==
    /\ settings = DefaultSettings
    /\ \/ \E data \in {<<1>>, <<1, 2>>} :
              \E b \in StepViewports :
                  \E m \in {updateAllLabels(NewManager, data, b)} :
                      SceneInit(data, b, m)
       \/ \E m \in {RebuildLabels(NewManager, << SmallPolygon.id >>,
                                   << SmallPolygon >>, SmallViewport)} :
              SceneInit(<< SmallPolygon >>, SmallViewport, m)

StepResult(r) ==
    /\ labels' = r.labels
    /\ velocities' = r.velocities
    /\ previousPositions' = r.previousPositions

\* one call of simulateStep()
Step ==
    /\ opCount < MaxSteps
    /\ labels # <<>>
    /\ StepResult(simulateStep(labels, velocities, previousPositions, bounds))
    /\ lastOp' = "simulateStep"
    /\ opCount' = opCount + 1
    /\ UNCHANGED << bounds, polygonData, labelMarkers, leaderLines,
                    polygonNameMarkers, debugLayers, showDebugFields,
                    isSimulating, manuallyPositioned, rafQueue, drag,
                    completed, everManual, settings, segmentTest >>

StepNext == Step

StepSpec == StepInit /\ [][StepNext]_vars

----------------------------------------------------------------------------
(* The vertex selection on its own: one polygon with an arbitrary ring, the
   settings changed by updateSettings, labelled by setLabels or
   updateAllLabels *)

MaxRingLen == 4
MaxRingOps == 2

\* the points a ring is made of: three on one parallel 0.4 degrees apart,
\* one 0.3 degrees above the middle one, one far away to the south-east
RingPoints ==
    { Vertex(300, 500), Vertex(300, 540), Vertex(300, 580),
      Vertex(330, 540), Vertex(100, 700) }

\* the vertices arrays a caller can pass, the empty one included
Rings == UNION { [1..n -> RingPoints] : n \in 0..MaxRingLen }

\* values of the min-vertex-angle control
MinVertexAngles == {0, 10}

RingPolygon(ring) == [id |-> 1, hull |-> ring, name |-> ""]

RingInit ==
    \E ring \in Rings :
        \E b \in Viewports :
            /\ bounds = b
            /\ polygonData = << RingPolygon(ring) >>
            /\ labels = NewManager.labels
            /\ labelMarkers = NewManager.labelMarkers
            /\ leaderLines = NewManager.leaderLines
            /\ polygonNameMarkers = NewManager.polygonNameMarkers
            /\ debugLayers = NewManager.debugLayers
            /\ showDebugFields = NewManager.showDebugFields
            /\ isSimulating = NewManager.isSimulating
            /\ manuallyPositioned = NewManager.manuallyPositioned
            /\ velocities = NewManager.velocities
            /\ previousPositions = NewManager.previousPositions
            /\ rafQueue = NewManager.rafQueue
            /\ drag = NoDrag
            /\ completed = {}
            /\ everManual = {}
            /\ lastOp = "constructor"
            /\ opCount = 0
            /\ settings = DefaultSettings
            /\ segmentTest = NoSegmentTest

RingOp(name) ==
    /\ opCount < MaxRingOps
    /\ opCount' = opCount + 1
    /\ lastOp' = name
    /\ UNCHANGED << bounds, polygonData, drag >>

\* updateSettings({ minVertexAngle: angle })
UpdateSettings(angle) ==
    /\ RingOp("updateSettings")
    /\ settings' = [settings EXCEPT !.minVertexAngle = angle]
    /\ UNCHANGED << labels, labelMarkers, leaderLines, polygonNameMarkers,
                    debugLayers, showDebugFields, isSimulating,
                    manuallyPositioned, velocities, previousPositions,
                    rafQueue, completed, everManual, segmentTest >>

\* setLabels(polygon.id, polygon.hull)
RingSetLabels ==
    /\ RingOp("setLabels")
    /\ Install(setLabels(Manager, polygonData[1].id, polygonData[1].hull, bounds))

\* updateAllLabels([polygon])
RingUpdateAllLabels ==
    /\ RingOp("updateAllLabels")
    /\ Install(RebuildLabels(Manager, << polygonData[1].id >>, polygonData, bounds))

RingNext ==
    \/ \E angle \in MinVertexAngles : UpdateSettings(angle)
    \/ RingSetLabels
    \/ RingUpdateAllLabels

RingSpec == RingInit /\ [][RingNext]_vars

----------------------------------------------------------------------------
(* lineIntersectsBox on its own: every segment and every box of a small
   lattice *)

MaxCoord == 4

\* coordinates of the segment's endpoints, and of the box's sides (the box
\* lies strictly inside the range of the endpoints)
Coords == 0..MaxCoord
Sides == 1..(MaxCoord - 1)

\* the boxes with left <= right and bottom <= top
Boxes ==
    { box \in [left : Sides, right : Sides, bottom : Sides, top : Sides] :
          box.left <= box.right /\ box.bottom <= box.top }

SegInit ==
    \E y1 \in Coords, x1 \in Coords, y2 \in Coords, x2 \in Coords :
        \E box \in Boxes :
            /\ segmentTest = [tested |-> FALSE, y1 |-> y1, x1 |-> x1,
                              y2 |-> y2, x2 |-> x2, box |-> box]
            /\ bounds = [south |-> 0, north |-> 700, west |-> 0, east |-> 1000]
            /\ polygonData = <<>>
            /\ labels = NewManager.labels
            /\ labelMarkers = NewManager.labelMarkers
            /\ leaderLines = NewManager.leaderLines
            /\ polygonNameMarkers = NewManager.polygonNameMarkers
            /\ debugLayers = NewManager.debugLayers
            /\ showDebugFields = NewManager.showDebugFields
            /\ isSimulating = NewManager.isSimulating
            /\ manuallyPositioned = NewManager.manuallyPositioned
            /\ velocities = NewManager.velocities
            /\ previousPositions = NewManager.previousPositions
            /\ rafQueue = NewManager.rafQueue
            /\ drag = NoDrag
            /\ completed = {}
            /\ everManual = {}
            /\ lastOp = "constructor"
            /\ opCount = 0
            /\ settings = DefaultSettings

\* one call of lineIntersectsBox(y1, x1, y2, x2, box)
LineIntersectsBox ==
    /\ ~segmentTest.tested
    /\ segmentTest' =
           [ tested |-> TRUE,
             y1 |-> segmentTest.y1, x1 |-> segmentTest.x1,
             y2 |-> segmentTest.y2, x2 |-> segmentTest.x2,
             box |-> segmentTest.box,
             result |-> lineIntersectsBox(segmentTest.y1, segmentTest.x1,
                                          segmentTest.y2, segmentTest.x2,
                                          segmentTest.box) ]
    /\ lastOp' = "lineIntersectsBox"
    /\ UNCHANGED << bounds, polygonData, labels, labelMarkers, leaderLines,
                    polygonNameMarkers, debugLayers, showDebugFields,
                    isSimulating, manuallyPositioned, velocities,
                    previousPositions, rafQueue, drag, completed, everManual,
                    opCount, settings >>

SegNext == LineIntersectsBox

SegSpec == SegInit /\ [][SegNext]_vars

----------------------------------------------------------------------------
(* One run followed to its end: the scenes of the solver, with the debug
   overlay switched on or off beforehand and a budget large enough for the
   stable-tick count to reach its threshold, and then one animation frame at
   a time *)

RunBudget == 36

RunInit ==
    /\ settings = [DefaultSettings EXCEPT !.iterations = RunBudget]
    /\ \E data \in {<<1>>, <<1, 2>>} :
           \E b \in StepViewports :
               \E show \in BOOLEAN :
                   \E m \in {updateAllLabels(toggleDebugFields(NewManager, show),
                                             data, b)} :
                       SceneInit(data, b, m)

RunNext == Frame

RunSpec == RunInit /\ [][RunNext]_vars

----------------------------------------------------------------------------
(* The placement of a polygon name on its own: polygon 1 labelled by
   updateAllLabels in one of several viewports, labels dragged by the user,
   and renderPolygonNames called on the result *)

MaxNameOps == 3

\* the viewports of the map and two that leave the centroid of polygon 1
\* outside: one with its eastern candidate inside, one with no candidate inside
NameViewports ==
    Viewports \cup { [south |-> 0, north |-> 700, west |-> 500, east |-> 1000],
                     [south |-> 0, north |-> 700, west |-> 600, east |-> 1000] }

\* where a label is released: inside the polygon, 40px east of its centroid,
\* and 50px inside the western edge of the last viewport
NamePositions == { LatLng(350, 500), LatLng(366, 553), LatLng(366, 709) }

NameInit ==
    /\ settings = DefaultSettings
    /\ \E b \in NameViewports :
           \E m \in {updateAllLabels(NewManager, <<1>>, b)} :
               SceneInit(<<1>>, b, m)

\* the user drags labels[k] to pos
NameDrag(k, pos) ==
    /\ opCount < MaxNameOps
    /\ Install(DragGesture(Manager, k, pos))
    /\ lastOp' = "dragend"
    /\ opCount' = opCount + 1
    /\ UNCHANGED << bounds, polygonData, drag >>

\* renderPolygonNames(polygons) for the polygons of the application
NameRender ==
    /\ opCount < MaxNameOps
    /\ lastOp # "renderPolygonNames"
    /\ Install([ Manager EXCEPT !.polygonNameMarkers =
                    renderPolygonNames([i \in 1..Len(polygonData) |-> Polygon(polygonData[i])],
                                       labels, bounds) ])
    /\ lastOp' = "renderPolygonNames"
    /\ opCount' = opCount + 1
    /\ UNCHANGED << bounds, polygonData, drag >>

NameNext ==
    \/ \E k \in 1..Len(labels) : \E pos \in NamePositions : NameDrag(k, pos)
    \/ NameRender

NameSpec == NameInit /\ [][NameNext]_vars

----------------------------------------------------------------------------
(* Properties *)

\* C1: once stopSimulation() has interrupted a run, the animation tick that
\* run had already scheduled performs no solver step: the iteration count of
\* an interrupted run stays what it was when the run was stopped.
C1_StoppedRunTakesNoStep ==
    \A i \in 1..Len(rafQueue) :
        rafQueue[i].stoppedAt # -1 =>
            rafQueue[i].iterationCount = rafQueue[i].stoppedAt

\* C2: a run that stopSimulation() interrupted never invokes its completion
\* callbacks: no run completing in a frame was interrupted and still called
\* renderPolygonNames(polygonsForNames) or the end-of-run renderDebugFields.
C2_InterruptedRunSkipsCallbacks ==
    \A r \in completed : r.interrupted => (~r.names /\ ~r.debug)

\* C3: at most one animate tick chain is pending at any time, and
\* startSimulation while the simulation is running changes nothing.
C3_AtMostOneChain ==
    /\ Len(rafQueue) <= 1
    /\ isSimulating => startSimulation(Manager, TRUE, polygonData) = Manager

\* C4: when updateAllLabels ends with at least one label, the run that then
\* simulates those labels is fresh: its iteration and convergence counters
\* are zero, and every previous-position entry of a current label is that
\* label's current position.
C4_FreshRunAfterUpdate ==
    (lastOp = "updateAllLabels" /\ labels # <<>>) =>
        /\ rafQueue # <<>>
        /\ rafQueue[Len(rafQueue)].iterationCount = 0
        /\ rafQueue[Len(rafQueue)].stableCount = 0
        /\ rafQueue[Len(rafQueue)].previousEnergy = Infinity
        /\ \A i \in 1..Len(labels) :
               EntryAt(previousPositions, i).def =>
                   previousPositions[i] = Entry(labels[i].labelLatLng.lat,
                                                labels[i].labelLatLng.lng)

\* C5: dragend does not move a label, and once the drag of a label has ended
\* no animation frame (no simulateStep, of any run) changes the position of
\* the label with that key.
C5_ReleasedLabelStays ==
    [][ /\ lastOp' = "dragend" => labels' = labels
        /\ lastOp' = "frame" =>
               \A i \in 1..Len(labels) :
                   labels[i].key \in manuallyPositioned =>
                       labels'[i].labelLatLng = labels[i].labelLatLng ]_vars

\* C6: an animation frame (any number of simulateStep calls) leaves every
\* label whose manuallyPositioned flag is true exactly where it was, while
\* that label still pushes the others: a label whose box overlaps it gets a
\* non-zero pair force, and a label whose box its leader line crosses gets a
\* non-zero leader-line push.
C6_ManualLabelFixedButFelt ==
    [][ lastOp' = "frame" =>
            \A i \in 1..Len(labels) :
                labels[i].manuallyPositioned =>
                    /\ labels'[i] = labels[i]
                    /\ \A j \in 1..Len(labels) \ {i} :
                           /\ Overlapping(LabelBox(labels[j], 5), LabelBox(labels[i], 5))
                                  => PairShare(labels, j, i) # ZeroForce
                           /\ ( /\ lineIntersectsBox(labels[i].vertexLatLng.lat,
                                                     labels[i].vertexLatLng.lng,
                                                     labels[i].labelLatLng.lat,
                                                     labels[i].labelLatLng.lng,
                                                     LabelBox(labels[j], 2))
                                /\ \/ 2 * labels[j].labelLatLng.lat #
                                          labels[i].vertexLatLng.lat
                                            + labels[i].labelLatLng.lat
                                   \/ 2 * labels[j].labelLatLng.lng #
                                          labels[i].vertexLatLng.lng
                                            + labels[i].labelLatLng.lng )
                                  => LeaderPush(labels[j], labels[i]) # ZeroForce ]_vars

\* a frame has just stepped the solver over a label with the flag set and
\* another label, not flagged, whose box overlaps it
C6_Witness ==
    /\ lastOp = "frame"
    /\ rafQueue # <<>>
    /\ \E i, j \in 1..Len(labels) :
           /\ labels[i].manuallyPositioned
           /\ ~labels[j].manuallyPositioned
           /\ Overlapping(LabelBox(labels[j], 5), LabelBox(labels[i], 5))

\* C7: updateAllLabels restores manual overrides.  A rebuilt label whose key
\* had a label before the call and was manually positioned (its drag had
\* ended) keeps exactly the position it had and has manuallyPositioned =
\* true; every other rebuilt label gets the computed initial position for
\* the new viewport and manuallyPositioned = false.  Stated for the handlers
\* that call updateAllLabels once (moveend and removePolygon; addPolygon
\* calls it twice, through removePolygon and then through refreshAllLabels).
C7_UpdateRestoresManual ==
    [][ (lastOp' = "updateAllLabels" /\ Len(polygonData') <= Len(polygonData)) =>
            \A i \in 1..Len(labels') :
                IF \E j \in 1..Len(labels) :
                       /\ labels[j].key = labels'[i].key
                       /\ labels[j].key \in manuallyPositioned
                THEN /\ labels'[i].manuallyPositioned
                     /\ \A j \in 1..Len(labels) :
                            labels[j].key = labels'[i].key =>
                                labels'[i].labelLatLng = labels[j].labelLatLng
                ELSE /\ ~labels'[i].manuallyPositioned
                     /\ labels'[i].labelLatLng =
                            InitialPosition(bounds', labels'[i].polygonVertices,
                                            labels'[i].vertexIndex) ]_vars

\* updateAllLabels has just rebuilt a label at its dragged position, with
\* the flag set, next to a label it placed afresh
C7_Witness ==
    /\ lastOp = "updateAllLabels"
    /\ \E i, j \in 1..Len(labels) :
           /\ labels[i].manuallyPositioned
           /\ labels[i].key \in manuallyPositioned
           /\ labels[i].labelLatLng \in DragTargets
           /\ ~labels[j].manuallyPositioned

\* C8: manuallyPositioned is monotonic per key: a label whose key has had a
\* manually positioned label since the last clear() is manually positioned,
\* whatever simulation runs, viewport moves with updateAllLabels, setLabels
\* and removeLabels happened in between.
C8_ManualFlagMonotonic ==
    \A i \in 1..Len(labels) :
        labels[i].key \in everManual => labels[i].manuallyPositioned

\* C9: the labels array holds at most one label per (polygonId, vertexIndex).
C9_OneLabelPerKey ==
    \A i, j \in 1..Len(labels) : labels[i].key = labels[j].key => i = j

\* setLabels has just replaced the labels of one polygon while another
\* polygon has labels too
C9_Witness ==
    /\ lastOp = "setLabels"
    /\ \E i, j \in 1..Len(labels) :
           /\ labels[i].polygonId # labels[j].polygonId
           /\ labels[i].vertexIndex = labels[j].vertexIndex

\* C10: after a frame stepped the solver, every label that is not manually
\* positioned lies within pixelsToDegrees(maxLabelDistance) of its anchor
\* (with one lattice unit of tolerance for rounding).
C10_WithinMaxDistance ==
    (lastOp = "frame" /\ rafQueue # <<>>) =>
        \A i \in 1..Len(labels) :
            ~labels[i].manuallyPositioned =>
                ~BeyondMaxDist(labels[i].labelLatLng.lng - labels[i].vertexLatLng.lng,
                               labels[i].labelLatLng.lat - labels[i].vertexLatLng.lat,
                               pixelsToDegrees(EquatorCos, maxLabelDistance) + 1)

\* the viewport padding of a label: half its height / width plus 10 px
PadH(label) == pixelsToDegreesFrac(EquatorCos, label.height + 20, 2)
PadW(label) == pixelsToDegreesFrac(EquatorCos, label.width + 20, 2)

\* C11 (as stated): after any simulateStep every label that is not manually
\* positioned lies inside the viewport shrunk by its padding, for every
\* viewport size.
C11_InsidePaddedViewport ==
    lastOp = "simulateStep" =>
        \A i \in 1..Len(labels) :
            ~labels[i].manuallyPositioned =>
                /\ bounds.south + PadH(labels[i]) <= labels[i].labelLatLng.lat
                /\ labels[i].labelLatLng.lat <= bounds.north - PadH(labels[i])
                /\ bounds.west + PadW(labels[i]) <= labels[i].labelLatLng.lng
                /\ labels[i].labelLatLng.lng <= bounds.east - PadW(labels[i])

\* C11 (amended): after any simulateStep every label that is not manually
\* positioned has lat >= south + padH and lng >= west + padW; it has
\* lat <= north - padH when the viewport is at least 2 padH high and
\* lng <= east - padW when the viewport is at least 2 padW wide.
C11_InsideWhenViewportFits ==
    lastOp = "simulateStep" =>
        \A i \in 1..Len(labels) :
            ~labels[i].manuallyPositioned =>
                /\ bounds.south + PadH(labels[i]) <= labels[i].labelLatLng.lat
                /\ bounds.west + PadW(labels[i]) <= labels[i].labelLatLng.lng
                /\ bounds.north - bounds.south >= 2 * PadH(labels[i]) =>
                       labels[i].labelLatLng.lat <= bounds.north - PadH(labels[i])
                /\ bounds.east - bounds.west >= 2 * PadW(labels[i]) =>
                       labels[i].labelLatLng.lng <= bounds.east - PadW(labels[i])

\* a step has put one label on the padded west edge of a viewport that fits
\* it, and (in another scene) on the padded west edge of one that does not
C11_Witness ==
    /\ lastOp = "simulateStep"
    /\ \E i \in 1..Len(labels) :
           /\ ~labels[i].manuallyPositioned
           /\ labels[i].labelLatLng.lng = bounds.west + PadW(labels[i])
           /\ bounds.east - bounds.west >= 2 * PadW(labels[i])
           /\ labels[i].vertexLatLng.lng < bounds.west + PadW(labels[i])

\* C12: every run terminates.  No run takes more than settings.iterations
\* solver steps, and when animation frames keep being delivered a pending or
\* running simulation leads to the state with no tick pending and
\* isSimulating = false, whether or not the labels still overlap.
C12_EveryRunTerminates ==
    /\ [](\A i \in 1..Len(rafQueue) : rafQueue[i].iterationCount <= iterations)
    /\ (rafQueue # <<>> \/ isSimulating) ~> (rafQueue = <<>> /\ ~isSimulating)

\* a run has just ended with its iteration budget used up while two labels
\* still overlap
C12_Witness ==
    /\ lastOp = "frame"
    /\ completed # {}
    /\ rafQueue = <<>>
    /\ ~isSimulating
    /\ \E i, j \in 1..Len(labels) :
           /\ i # j
           /\ Overlapping(LabelBox(labels[i], 0), LabelBox(labels[j], 0))

\* no labels, no label markers, no leader lines, no polygon-name markers, and
\* the scheduler idle
Cleared ==
    /\ labels = <<>>
    /\ labelMarkers = {}
    /\ leaderLines = {}
    /\ polygonNameMarkers = <<>>
    /\ ~isSimulating

\* C13: clear() drops everything and halts the simulation: when clear()
\* returns there are no labels, markers, leader lines or polygon-name
\* markers and the scheduler is idle, and an animation tick that follows
\* clear() leaves it so.
C13_ClearStaysCleared ==
    [][ /\ lastOp' = "clear" => Cleared'
        /\ (lastOp = "clear" /\ lastOp' = "frame") => Cleared' ]_vars

\* C14: removeLabels(polygonId) removes every label, label marker and leader
\* line of the polygon, leaves the labels of the other polygons (their keys,
\* positions and order) and their markers and leader lines as they were,
\* and leaves isSimulating = false when no label remains.
C14_RemoveLabelsFrame ==
    [][ lastOp' = "removeLabels" =>
            \E id \in PolygonIds :
                /\ \E i \in 1..Len(labels) : labels[i].polygonId = id
                /\ \A i \in 1..Len(labels') : labels'[i].polygonId # id
                /\ \A key \in labelMarkers' \cup leaderLines' : key[1] # id
                /\ labels' = SelectSeq(labels, LAMBDA l : l.polygonId # id)
                /\ labelMarkers' = {key \in labelMarkers : key[1] # id}
                /\ leaderLines' = {key \in leaderLines : key[1] # id}
                /\ labels' = <<>> => ~isSimulating' ]_vars

\* removeLabels has just removed the labels of one polygon while a run was
\* in progress and the labels and markers of another polygon remain
C14_Witness ==
    /\ lastOp = "removeLabels"
    /\ labels # <<>>
    /\ labelMarkers = KeysOf(labels)
    /\ isSimulating
    /\ \E id \in PolygonIds :
           /\ \E i \in 1..Len(polygonData) : polygonData[i] = id
           /\ \A i \in 1..Len(labels) : labels[i].polygonId # id

\* the ring's vertex at index lies between its two neighbours on one line,
\* or coincides with one of them
StraightAt(ring, index) ==
    LET n    == Len(ring)
        prev == ring[((index - 1 + n) % n) + 1]
        curr == ring[index + 1]
        next == ring[((index + 1) % n) + 1]
    IN  \/ prev = curr
        \/ next = curr
        \/ /\ (prev.lon - curr.lon) * (next.lat - curr.lat)
                = (prev.lat - curr.lat) * (next.lon - curr.lon)
           /\ (prev.lon - curr.lon) * (next.lon - curr.lon)
                + (prev.lat - curr.lat) * (next.lat - curr.lat) < 0

\* the first half of C15: calculateVertexAngle returns 180 at a vertex that
\* lies between its neighbours on one line or has a zero-length adjacent edge
StraightAngleIs180 ==
    \A index \in 0..(Len(polygonData[1].hull) - 1) :
        StraightAt(polygonData[1].hull, index)
            => calculateVertexAngle(polygonData[1].hull, index) = 180

\* C15: calculateVertexAngle returns 180 at the middle one of three collinear
\* ring points and whenever an adjacent edge has zero length, and after
\* setLabels / updateAllLabels no label belongs to a vertex whose angle is
\* 180, whatever settings.minVertexAngle >= 0 is.
C15_StraightVertexNeverLabelled ==
    lastOp \in {"setLabels", "updateAllLabels"} =>
        /\ StraightAngleIs180
        /\ \A i \in 1..Len(labels) :
               calculateVertexAngle(labels[i].polygonVertices,
                                    labels[i].vertexIndex) # 180

\* C16: a ring of fewer than 3 points (0, 1 or 2 vertices) never produces a
\* label: after setLabels / updateAllLabels of such a ring there is no
\* label, in every viewport and with every setting.
C16_SmallRingNeverLabelled ==
    (lastOp \in {"setLabels", "updateAllLabels"} /\ Len(polygonData[1].hull) < 3)
        => labels = <<>>

\* a label of the polygon exists for the ring vertex at index
Labelled(polygonId, index) ==
    \E i \in 1..Len(labels) :
        labels[i].polygonId = polygonId /\ labels[i].vertexIndex = index

\* the vertex is in the viewport and is not skipped by the angle filter
PassesFilters(ring, index) ==
    /\ Contains(bounds, ring[index + 1].lat, ring[index + 1].lon)
    /\ ~(calculateVertexAngle(ring, index) > 180 - settings.minVertexAngle)

\* the two vertices are closer together than minVertexDistance
TooClose(ring, i, j) ==
    (ring[i + 1].lat - ring[j + 1].lat) * (ring[i + 1].lat - ring[j + 1].lat)
      + (ring[i + 1].lon - ring[j + 1].lon) * (ring[i + 1].lon - ring[j + 1].lon)
    < pixelsToDegrees(CosMilli(CenterLat(bounds)), minVertexDistance)
        * pixelsToDegrees(CosMilli(CenterLat(bounds)), minVertexDistance)

\* C17: of two in-viewport vertices of a polygon that both pass the angle
\* filter and lie closer together than minVertexDistance, setLabels /
\* updateAllLabels label exactly one: the one with the strictly smaller
\* angle whatever their order in the ring, the earlier one when the angles
\* are equal.
C17_OneOfTwoCloseVertices ==
    lastOp \in {"setLabels", "updateAllLabels"} =>
        \A i, j \in 0..(Len(polygonData[1].hull) - 1) :
            ( /\ i < j
              /\ PassesFilters(polygonData[1].hull, i)
              /\ PassesFilters(polygonData[1].hull, j)
              /\ TooClose(polygonData[1].hull, i, j) )
            => IF calculateVertexAngle(polygonData[1].hull, j)
                    < calculateVertexAngle(polygonData[1].hull, i)
               THEN Labelled(polygonData[1].id, j) /\ ~Labelled(polygonData[1].id, i)
               ELSE Labelled(polygonData[1].id, i) /\ ~Labelled(polygonData[1].id, j)

\* the point (x, y) is in the closed box
InBox(x, y, box) ==
    x >= box.left /\ x <= box.right /\ y >= box.bottom /\ y <= box.top

\* the side of the line through p and q on which r lies: 1, -1, or 0 on it
Side(p, q, r) ==
    LET cross == (q[1] - p[1]) * (r[2] - p[2]) - (q[2] - p[2]) * (r[1] - p[1])
    IN  IF cross > 0 THEN 1 ELSE IF cross < 0 THEN -1 ELSE 0

\* r, on the line through p and q, lies between p and q
Between(p, q, r) ==
    /\ Min(p[1], q[1]) <= r[1] /\ r[1] <= Max(p[1], q[1])
    /\ Min(p[2], q[2]) <= r[2] /\ r[2] <= Max(p[2], q[2])

\* the closed segments p1-q1 and p2-q2 share a point
SegmentsMeet(p1, q1, p2, q2) ==
    \/ /\ Side(p1, q1, p2) # Side(p1, q1, q2)
       /\ Side(p2, q2, p1) # Side(p2, q2, q1)
    \/ Side(p1, q1, p2) = 0 /\ Between(p1, q1, p2)
    \/ Side(p1, q1, q2) = 0 /\ Between(p1, q1, q2)
    \/ Side(p2, q2, p1) = 0 /\ Between(p2, q2, p1)
    \/ Side(p2, q2, q1) = 0 /\ Between(p2, q2, q1)

\* the closed segment p-q shares a point with the closed box: an endpoint is
\* in the box, or the segment meets one of the four sides of the box
SegmentMeetsBox(p, q, box) ==
    \/ InBox(p[1], p[2], box)
    \/ InBox(q[1], q[2], box)
    \/ SegmentsMeet(p, q, <<box.left, box.bottom>>, <<box.left, box.top>>)
    \/ SegmentsMeet(p, q, <<box.right, box.bottom>>, <<box.right, box.top>>)
    \/ SegmentsMeet(p, q, <<box.left, box.bottom>>, <<box.right, box.bottom>>)
    \/ SegmentsMeet(p, q, <<box.left, box.top>>, <<box.right, box.top>>)

\* C18: lineIntersectsBox(y1, x1, y2, x2, box) returns true exactly when the
\* closed segment (x1,y1)-(x2,y2) shares a point with the closed box, for all
\* endpoints and all boxes with left <= right and bottom <= top, axis-aligned
\* and zero-length segments included; it is true whenever an endpoint is in
\* the box.
C18_TrueExactlyWhenSegmentMeetsBox ==
    segmentTest.tested =>
        /\ segmentTest.result
             = SegmentMeetsBox(<<segmentTest.x1, segmentTest.y1>>,
                               <<segmentTest.x2, segmentTest.y2>>,
                               segmentTest.box)
        /\ ( \/ InBox(segmentTest.x1, segmentTest.y1, segmentTest.box)
             \/ InBox(segmentTest.x2, segmentTest.y2, segmentTest.box) )
               => segmentTest.result

\* a slanted segment with both endpoints outside the box was found to touch
\* the box in a corner only
C18_Witness ==
    /\ segmentTest.tested
    /\ segmentTest.result
    /\ segmentTest.x1 # segmentTest.x2
    /\ segmentTest.y1 # segmentTest.y2
    /\ ~InBox(segmentTest.x1, segmentTest.y1, segmentTest.box)
    /\ ~InBox(segmentTest.x2, segmentTest.y2, segmentTest.box)
    /\ segmentTest.box.left < segmentTest.box.right
    /\ segmentTest.box.bottom < segmentTest.box.top
    /\ \A x \in Coords, y \in Coords :
           ( /\ InBox(x, y, segmentTest.box)
             /\ Side(<<segmentTest.x1, segmentTest.y1>>,
                     <<segmentTest.x2, segmentTest.y2>>, <<x, y>>) = 0 )
           => ( /\ x \in {segmentTest.box.left, segmentTest.box.right}
                /\ y \in {segmentTest.box.bottom, segmentTest.box.top} )

\* the ring vertices of all labels that are not at the anchor of the label
OtherVertices(label, ls) ==
    SelectSeq(AllVertices(ls), LAMBDA vertex :
        vertex.lat # label.vertexLatLng.lat \/ vertex.lon # label.vertexLatLng.lng)

\* C19: the vertex-padding force simulateStep accumulates on a label holds
\* no contribution of a ring vertex that equals the label's own anchor: it
\* is the sum of the contributions of the other vertices, wherever the
\* label is.
C19_NoPaddingFromOwnAnchor ==
    \A i \in 1..Len(labels) :
        VertexPadding(labels[i], AllVertices(labels))
            = VertexPadding(labels[i], OtherVertices(labels[i], labels))

\* simulateStep has run with a label closer than 15 px to its own anchor,
\* where the anchor would push it if it were an ordinary vertex
C19_Witness ==
    /\ lastOp = "simulateStep"
    /\ \E i \in 1..Len(labels) :
           PaddingOffset(labels[i].labelLatLng.lng - labels[i].vertexLatLng.lng,
                         labels[i].labelLatLng.lat - labels[i].vertexLatLng.lat)
             # ZeroForce

\* C20: two labels that are not manually positioned and have identical
\* positions before a simulateStep have different positions after that one
\* step.
C20_CoincidentLabelsSeparate ==
    [][ lastOp' = "simulateStep" =>
            \A i, j \in 1..Len(labels) :
                ( /\ i < j
                  /\ ~labels[i].manuallyPositioned
                  /\ ~labels[j].manuallyPositioned
                  /\ labels[i].labelLatLng = labels[j].labelLatLng )
                => labels'[i].labelLatLng # labels'[j].labelLatLng ]_vars

\* what the solver works on: the labels with their positions and manual
\* flags, the Verlet arrays and the scheduler
SolverState(m) ==
    << m.labels, m.manuallyPositioned, m.velocities, m.previousPositions,
       m.isSimulating, m.rafQueue >>

\* the manager had one more toggleDebugFields call been made
Toggled(m) == toggleDebugFields(m, ~m.showDebugFields)

\* C21: toggleDebugFields has no effect on the solver.  The call leaves the
\* labels, their positions and manual flags and the scheduler as they are,
\* and every other operation leaves the labels, positions, flags and
\* scheduler it would have left had one more toggleDebugFields call come
\* before it (so by induction interleaved calls never change them); after
\* toggleDebugFields(false) no debug layer remains.
C21_DebugFieldsDoNotInterfere ==
    [][ LET after == << labels', manuallyPositioned', velocities',
                        previousPositions', isSimulating', rafQueue' >>
        IN  /\ lastOp' = "toggleDebugFields" =>
                   /\ after = SolverState(Manager)
                   /\ ~showDebugFields' => debugLayers' = 0
            /\ lastOp' = "frame" =>
                   after = SolverState(RunCallbacks(
                               [Toggled(Manager) EXCEPT !.rafQueue = <<>>],
                               rafQueue, bounds))
            /\ (lastOp' = "updateAllLabels" /\ polygonData' = polygonData) =>
                   after = SolverState(updateAllLabels(Toggled(Manager),
                                                       polygonData, bounds'))
            /\ (lastOp' = "updateAllLabels" /\ Len(polygonData') > Len(polygonData)) =>
                   after = SolverState(addPolygon(polygonData, Toggled(Manager),
                               polygonData'[Len(polygonData')], bounds).m)
            /\ (lastOp' = "updateAllLabels" /\ Len(polygonData') < Len(polygonData)) =>
                   \E id \in PolygonIds :
                       /\ polygonData' = Without(polygonData, id)
                       /\ after = SolverState(removePolygon(polygonData,
                                      Toggled(Manager), id, bounds).m)
            /\ lastOp' = "setLabels" =>
                   \E id \in PolygonIds :
                       after = SolverState(setLabels(Toggled(Manager), id,
                                                     HullOf(id), bounds))
            /\ lastOp' = "removeLabels" =>
                   \E id \in PolygonIds :
                       after = SolverState(removeLabels(Toggled(Manager), id))
            /\ lastOp' = "clear" => after = SolverState(clear(Toggled(Manager)))
            /\ lastOp' = "dragstart" =>
                   after = SolverState(stopSimulation(Toggled(Manager))) ]_vars

\* the overlay was switched on during a run, and the run has completed and
\* refreshed it
C21_Witness ==
    /\ lastOp = "frame"
    /\ completed # {}
    /\ showDebugFields
    /\ debugLayers > 0
    /\ labels # <<>>

\* the condition under which animate takes its final branch for the run c
Exhausted(c) ==
    c.iterationCount >= settings.iterations \/ c.stableCount >= stableThreshold

\* C22: when the animation tick of a run finds the iteration budget
\* exhausted or the stable-tick count at its threshold, the run ends in that
\* tick: isSimulating becomes false, the labels are rendered at their final
\* positions, renderPolygonNames is called once when polygons were
\* registered for the run (and not otherwise), the debug overlay is
\* refreshed when enabled, and the run schedules no further tick.
C22_RunEndsInThatTick ==
    [][ (lastOp' = "frame" /\ Len(rafQueue) = 1 /\ Exhausted(rafQueue[1])) =>
            /\ ~isSimulating'
            /\ labels' = labels
            /\ KeysOf(labels) \subseteq labelMarkers'
            /\ KeysOf(labels) \subseteq leaderLines'
            /\ polygonNameMarkers' =
                   IF rafQueue[1].hasPolygons
                   THEN renderPolygonNames(
                            [i \in 1..Len(rafQueue[1].polygonsForNames) |->
                               Polygon(rafQueue[1].polygonsForNames[i])],
                            labels, bounds)
                   ELSE polygonNameMarkers
            /\ Cardinality(completed') = 1
            /\ \A run \in completed' : run.names = rafQueue[1].hasPolygons
            /\ debugLayers' = IF showDebugFields
                              THEN renderDebugFields(TRUE, labels)
                              ELSE debugLayers
            /\ rafQueue' = <<>> ]_vars

\* a run has ended, placed a polygon name and refreshed the debug overlay
C22_Witness ==
    /\ lastOp = "frame"
    /\ completed # {}
    /\ rafQueue = <<>>
    /\ ~isSimulating
    /\ showDebugFields
    /\ debugLayers > 0
    /\ DOMAIN polygonNameMarkers # {}

\* the tick that left the energy sum energy after the sum previous was
\* stable: the average over stepsPerFrame is below 0.0001 (one square
\* lattice unit) or within 0.00001 of the previous average
StableTick(energy, previous) ==
    \/ energy < stepsPerFrame
    \/ previous # Infinity /\ 10 * Abs(energy - previous) < stepsPerFrame

\* C23: a run ends before its iteration budget is used up only after
\* stableThreshold (10) consecutive stable ticks: a tick ends the run only
\* when the budget is used up or the count of consecutive stable ticks is at
\* the threshold, a stable tick adds one to that count and an unstable tick
\* resets it to zero.
C23_EarlyEndOnlyAfterStableTicks ==
    [][ (lastOp' = "frame" /\ Len(rafQueue) = 1) =>
            /\ rafQueue' = <<>> =>
                   \/ rafQueue[1].iterationCount >= settings.iterations
                   \/ rafQueue[1].stableCount >= 10
            /\ rafQueue' # <<>> =>
                   /\ rafQueue[1].stableCount < 10
                   /\ rafQueue'[1].stableCount =
                          IF StableTick(rafQueue'[1].previousEnergy,
                                        rafQueue[1].previousEnergy)
                          THEN rafQueue[1].stableCount + 1
                          ELSE 0 ]_vars

\* the tenth consecutive stable tick of a run, with budget left, after an
\* unstable tick had happened in the run
C23_Witness ==
    /\ lastOp = "frame"
    /\ Len(rafQueue) = 1
    /\ rafQueue[1].stableCount = 10
    /\ rafQueue[1].iterationCount < settings.iterations
    /\ rafQueue[1].iterationCount > 10 * stepsPerFrame

\* the centroid of a hull
Centroid(hull) == Vertex(Quot(SumLat(hull), Len(hull)), Quot(SumLon(hull), Len(hull)))

\* a point dlat north and dlon east of v
Offset(v, dlat, dlon) == Vertex(v.lat + dlat, v.lon + dlon)

\* the candidates that remain for a hull in the viewport b: the centroid and
\* its four 40px offsets that lie inside b, or the centroid clamped 50px
\* inside b when none of them does
Remaining(hull, b) ==
    LET c == Centroid(hull)
        off == pixelsToDegrees(CosMilli(c.lat), 40)
        padding == pixelsToDegrees(CosMilli(c.lat), 50)
        inside == {v \in {c, Offset(c, off, 0), Offset(c, -off, 0),
                          Offset(c, 0, off), Offset(c, 0, -off)} :
                      Contains(b, v.lat, v.lon)}
    IN  IF inside # {} THEN inside
        ELSE { Vertex(Max(b.south + padding, Min(b.north - padding, c.lat)),
                      Max(b.west + padding, Min(b.east - padding, c.lon))) }

\* C24: for a polygon with a non-empty hull the name position is one of the
\* candidates that remain after the viewport filter, and no other remaining
\* candidate is farther from its nearest label.
C24_NameAtBestRemainingCandidate ==
    lastOp = "renderPolygonNames" =>
        \A id \in DOMAIN polygonNameMarkers :
            /\ polygonNameMarkers[id] \in Remaining(HullOf(id), bounds)
            /\ \A c \in Remaining(HullOf(id), bounds) :
                   MinDist2(polygonNameMarkers[id], labels) >= MinDist2(c, labels)

\* the same when some remaining candidate is not on top of a label
NameAtBestUnlessAllOccupied ==
    lastOp = "renderPolygonNames" =>
        \A id \in DOMAIN polygonNameMarkers :
            (\E c \in Remaining(HullOf(id), bounds) : MinDist2(c, labels) > 0) =>
                /\ polygonNameMarkers[id] \in Remaining(HullOf(id), bounds)
                /\ \A c \in Remaining(HullOf(id), bounds) :
                       MinDist2(polygonNameMarkers[id], labels) >= MinDist2(c, labels)

\* the sum of the label-repulsion totals of labels[i..]
RECURSIVE TotalLabelRepulsion(_, _)
TotalLabelRepulsion(ls, i) ==
    IF i > Len(ls) THEN ZeroForce
    ELSE AddForce(LabelRepulsion(ls, i, 1), TotalLabelRepulsion(ls, i + 1))

\* C25: the force of an overlapping pair goes with opposite signs to its two
\* labels, so the label-repulsion contributions of all labels add up to zero
\* on both axes, also when two centers coincide.
C25_LabelRepulsionSumsToZero ==
    /\ TotalLabelRepulsion(labels, 1) = ZeroForce
    /\ \A i, j \in 1..Len(labels) :
           AddForce(PairShare(labels, i, j), PairShare(labels, j, i)) = ZeroForce

\* two labels with the same center that push each other, at a moment
\* simulateStep has computed forces and will again
C25_Witness ==
    /\ lastOp = "simulateStep"
    /\ opCount < MaxSteps
    /\ \E i, j \in 1..Len(labels) :
           /\ i < j
           /\ labels[i].labelLatLng = labels[j].labelLatLng
           /\ PairShare(labels, i, j) # ZeroForce

\* a different label stands at labels'[i] than stood at labels[i]
Replaced(i) == i > Len(labels) \/ labels[i].key # labels'[i].key

\* C26: previousPositions[i] always belongs to the label at labels[i]: when
\* an operation puts a different label at index i, the entry i it leaves is
\* missing (simulateStep will create it) or was initialised from that label.
C26_PreviousPositionsFollowLabels ==
    [][ \A i \in 1..Len(labels') :
            Replaced(i) =>
                \/ ~EntryAt(previousPositions', i).def
                \/ previousPositions'[i] = Entry(labels'[i].labelLatLng.lat,
                                                labels'[i].labelLatLng.lng) ]_vars

\* the anchors of two labels are closer together than minVertexDistance
AnchorsTooClose(label1, label2) ==
    LET dx == label1.vertexLatLng.lng - label2.vertexLatLng.lng
        dy == label1.vertexLatLng.lat - label2.vertexLatLng.lat
        d  == pixelsToDegrees(CosMilli(CenterLat(bounds)), minVertexDistance)
    IN  dx * dx + dy * dy < d * d

\* C27: after updateAllLabels no two labels have anchors closer together
\* than minVertexDistance.
C27_AnchorsApartAfterUpdateAllLabels ==
    lastOp = "updateAllLabels" =>
        \A i, j \in 1..Len(labels) :
            i < j => ~AnchorsTooClose(labels[i], labels[j])

\* the polygons the application knows that have a name and a hull
NamedPolygons ==
    {polygonData[i] : i \in {n \in 1..Len(polygonData) :
                                NameOf(polygonData[n]) # ""
                                /\ Len(HullOf(polygonData[n])) > 0}}

\* C28: when a run started by updateAllLabels completes, the polygon names it
\* places are those of the polygon list of the most recent updateAllLabels
\* call: the name markers on the map are exactly those of the named polygons
\* the application knows.
C28_NamesOfCurrentPolygons ==
    (lastOp = "frame" /\ \E run \in completed : run.names) =>
        DOMAIN polygonNameMarkers = NamedPolygons

C30_ManualOnlyWhereDragEnded ==
    \A i \in 1..Len(labels) :
        labels[i].manuallyPositioned =>
            << labels[i].key, labels[i].labelLatLng >> \in drag.ended

====
